---- MODULE Spec2Model ----
(***************************************************************************)
(* Store_Backend_System, src/app.py: the OCR staging tables, the           *)
(* production menu tables and the /import_ocr_menu handler that moves one  *)
(* store's staged menu into production inside one database transaction.    *)
(*                                                                         *)
(* A table is the sequence of its rows in insertion order (the engine's    *)
(* natural fetch order).  A connection sees the committed tables plus its  *)
(* own uncommitted inserts and minus its own uncommitted deletes; commit   *)
(* publishes them, rollback and close-without-commit discard them (both    *)
(* drivers open the connection with autocommit off).  Identity counters    *)
(* are not transactional: a rolled back insert still consumes its id.      *)
(***************************************************************************)
EXTENDS Integers, Sequences, FiniteSets, TLC

\* ---------------------------------------------------------------- bounds
MaxMenus == 2          \* rows ever inserted into menus
MaxOcrMenus == 2       \* rows ever inserted into ocr_menus
MaxOcrItems == 2       \* rows ever inserted into ocr_menu_items
MaxFaults == 1         \* statements that raise in one run (the rollback apart)
MaxMenuItems == 2      \* rows ever inserted into menu_items by add_menu_item
MaxStores == 2         \* rows ever inserted into stores
MaxTotal == 21         \* rows of stores when /api/stores is queried
MaxPage == 3           \* the page argument of /api/stores

\* ------------------------------------------------------------ value sets
Procs == {"w1", "w2"}                 \* request workers of the Flask server
Sequential == {"w1"}                  \* the workers of a server that serves one request at a time
NULL == "NULL"                        \* SQL NULL / Python None in a text or price column
NoId == 0                             \* NULL in an id column (ids start at 1)
StoreNames == {"A", "B"}              \* store_name values of requests
FormStoreNames == StoreNames \cup {""}  \* request.form.get('ocr_store_name'); "" is missing/empty
DbTypes == {"MYSQL", "SQL_SERVER"}
DbErrorText == "DBERR"                \* str(e) of a driver exception
ClosedText == "closed connection"     \* str(e) of pyodbc's error on a closed connection

\* flash() message templates (the interpolated values are fields of the flash record)
MsgLoginRequired == "login_required"            \* app.py:842
MsgNameMissing == "store_name_missing"          \* app.py:847
MsgStoreNotFound == "store_not_found"           \* app.py:862
MsgNothingToImport == "nothing_to_import"       \* app.py:892
MsgImported == "imported"                       \* app.py:959
MsgImportFailed == "import_failed"              \* app.py:966

VARIABLES
    DB_TYPE,    \* the dialect read from the environment at start (app.py:16)
    session,    \* keys of the Flask session
    db,         \* committed contents of the tables
    ident,      \* identity / auto-increment counters of the tables
    req,        \* per worker: the import_ocr_menu request it is serving
    last,       \* the last import_ocr_menu request if it failed, while the tables are as it left them
    faults      \* statements that raised so far

vars == <<DB_TYPE, session, db, ident, req, last, faults>>

\* ------------------------------------------------------------- sequences
Range(s) == {s[i] : i \in 1..Len(s)}

\* ---------------------------------------------------------------- tables
EmptyTx ==
    [menus |-> <<>>, menu_items |-> <<>>, menu_translations |-> <<>>,
     del_ocr_menu_translations |-> {}, del_ocr_menu_items |-> {}, del_ocr_menus |-> {}]

\* what a connection with uncommitted work t reads, and what commit publishes
View(d, t) ==
    [stores |-> d.stores,
     menus |-> d.menus \o t.menus,
     menu_items |-> d.menu_items \o t.menu_items,
     menu_translations |-> d.menu_translations \o t.menu_translations,
     ocr_menus |-> SelectSeq(d.ocr_menus, LAMBDA r : r.ocr_menu_id \notin t.del_ocr_menus),
     ocr_menu_items |->
        SelectSeq(d.ocr_menu_items, LAMBDA r : r.ocr_menu_item_id \notin t.del_ocr_menu_items),
     ocr_menu_translations |->
        SelectSeq(d.ocr_menu_translations,
                  LAMBDA r : r.menu_item_id \notin t.del_ocr_menu_translations)]

\* SELECT store_id FROM stores WHERE store_name = name  (rows in fetch order)
StoresNamed(d, name) == SelectSeq(d.stores, LAMBDA r : r.store_name = name)

\* SELECT store_name FROM stores WHERE store_id = id
StoresWithId(d, id) == SelectSeq(d.stores, LAMBDA r : r.store_id = id)

\* SELECT ocr_menu_id FROM ocr_menus WHERE store_name = name
OcrMenuIdsOf(d, name) == {r.ocr_menu_id : r \in {m \in Range(d.ocr_menus) : m.store_name = name}}

\* OcrItemsOf that joins the first ocr_menus row of the name only
OcrItemsOfFirstBatch(d, name) ==
    SelectSeq(d.ocr_menu_items,
              LAMBDA r : /\ r.ocr_menu_id \in OcrMenuIdsOf(d, name)
                         /\ \A id \in OcrMenuIdsOf(d, name) : r.ocr_menu_id <= id)

\* ocr_menu_items omi JOIN ocr_menus om ON omi.ocr_menu_id = om.ocr_menu_id
\* WHERE om.store_name = name
OcrItemsOf(d, name) ==
    SelectSeq(d.ocr_menu_items, LAMBDA r : r.ocr_menu_id \in OcrMenuIdsOf(d, name))

\* SELECT lang_code, description FROM ocr_menu_translations WHERE menu_item_id = id
OcrTranslationsOf(d, id) ==
    SelectSeq(d.ocr_menu_translations, LAMBDA r : r.menu_item_id = id)

EmptyDb ==
    [stores |-> <<>>, menus |-> <<>>, menu_items |-> <<>>, menu_translations |-> <<>>,
     ocr_menus |-> <<>>, ocr_menu_items |-> <<>>, ocr_menu_translations |-> <<>>]

\* ------------------------------------------------------ request records
Flash(category, msg, name, count, err) ==
    [category |-> category, msg |-> msg, store_name |-> name, count |-> count, err |-> err]

\* identity counters of empty tables
NoIdent ==
    [stores |-> 0, menus |-> 0, menu_items |-> 0, ocr_menus |-> 0, ocr_menu_items |-> 0]

\* no form submitted
NoForm ==
    [item_name |-> "", price_small |-> "", price_big |-> "", translated_desc |-> "",
     lang_codes |-> <<>>, descriptions |-> <<>>]

\* no JSON body
NoJson == [stores |-> <<>>, pagination |-> <<>>, final_params |-> <<>>]

IdleReq ==
    [pc |-> "idle", ocr_store_name |-> "", conn |-> "none", tx |-> EmptyTx,
     store_id |-> NoId, menu_id |-> NoId, ocr_items |-> <<>>, i |-> 0,
     new_menu_item_id |-> NoId, ocr_translations |-> <<>>, j |-> 0,
     imported_count |-> 0, flashes |-> <<>>, log |-> <<>>,
     raised |-> "", failed_at |-> "", escaped |-> "", response |-> "",
     connects |-> 0, statements |-> 0, commits |-> 0, rollbacks |-> 0, closes |-> 0,
     pre |-> EmptyDb, retried |-> FALSE, first_pre |-> EmptyDb,
     handler |-> "", item_id |-> NoId, form |-> NoForm,
     pre_ident |-> NoIdent, post |-> EmptyDb, session_before |-> {}, json |-> NoJson]

\* no import request answered yet, or the tables changed since
NoLast == [ocr_store_name |-> "", storage_error |-> FALSE, pre |-> EmptyDb]

\* the request ended in the except clause or with an exception leaving the handler
StorageError(r) ==
    \/ r.escaped # ""
    \/ \E k \in 1..Len(r.flashes) : r.flashes[k].msg = MsgImportFailed

Idle == \A p \in Procs : req[p].pc = "idle"

\* one cursor.execute() more on the request's connection
Executed(r, n) == [r EXCEPT !.statements = @ + n]

\* a statement raises: control passes to the except clause (app.py:962)
Raise(r) == [r EXCEPT !.raised = DbErrorText, !.failed_at = r.pc, !.pc = "except"]

\* conn.close(): uncommitted work of the connection is discarded
Close(r) == [r EXCEPT !.conn = "closed", !.tx = EmptyTx, !.closes = @ + 1]

\* cursor.lastrowid (MYSQL) or SELECT @@IDENTITY (SQL_SERVER, one more statement)
IdentityStatements == IF DB_TYPE = "MYSQL" THEN 0 ELSE 1

\* ------------------------------------------------------------------ Init
InitStores == <<[store_id |-> 1, store_name |-> "A"]>>

\* the identity counters once the rows of InitStores are inserted
InitIdent == [NoIdent EXCEPT !.stores = Len(InitStores)]

Init ==
    /\ DB_TYPE \in DbTypes
    /\ session = {}
    /\ db = [EmptyDb EXCEPT !.stores = InitStores]
    /\ ident = InitIdent
    /\ req = [p \in Procs |-> IdleReq]
    /\ last = NoLast
    /\ faults = 0

\* --------------------------------------------------------- login, logout
\* login(): check_credentials decides (ok); logout(): session.pop('username')
Login(ok) ==
    /\ Idle
    /\ session' = IF ok THEN session \cup {"username"} ELSE session
    /\ UNCHANGED <<DB_TYPE, db, ident, req, last, faults>>

Logout ==
    /\ Idle
    /\ session' = session \ {"username"}
    /\ UNCHANGED <<DB_TYPE, db, ident, req, last, faults>>

\* ------------------------------------------------------------ upload_ocr
\* items of a recognition result (process_menu_image_with_gemini): complete with
\* both prices, complete without translation and large price, and without price
ItemFull ==
    [original_name |-> "n1", translated_name |-> "t1", price_small |-> "10", price_large |-> "20"]
ItemPlain ==
    [original_name |-> "n2", translated_name |-> "", price_small |-> "15", price_large |-> NULL]
ItemNoPrice ==
    [original_name |-> "n3", translated_name |-> "t3", price_small |-> NULL, price_large |-> NULL]

\* ocr_result["menu_items"] of the uploads
OcrResults == { <<ItemFull, ItemNoPrice>>, <<ItemPlain>>, <<ItemNoPrice>>, <<>> }

UploadStoreIds == {1, 2}

\* Recognized without the test of price_small
RecognizedWithoutPrice(item) ==
    item.original_name \notin {"", NULL}

\* app.py:1042, negated: the item is staged
Recognized(item) ==
    ~ (item.original_name \in {"", NULL} \/ item.price_small = NULL)

\* app.py:1046-1069 for one recognized item, on the tables d with counters idn
StageOneItem(d, idn, ocr_menu_id, item) ==
    LET ocr_item_id == idn.ocr_menu_items + 1
        zh == [menu_item_id |-> ocr_item_id, lang_code |-> "zh-TW",
               description |-> item.original_name]
        en == [menu_item_id |-> ocr_item_id, lang_code |-> "en",
               description |-> item.translated_name]
    IN  [db |-> [d EXCEPT
                   !.ocr_menu_items = Append(@, [ocr_menu_item_id |-> ocr_item_id,
                                                 ocr_menu_id |-> ocr_menu_id,
                                                 item_name |-> item.original_name,
                                                 price_big |-> item.price_large,
                                                 price_small |-> item.price_small,
                                                 translated_desc |-> NULL]),
                   !.ocr_menu_translations =
                        IF item.translated_name \in {"", NULL}
                        THEN Append(@, zh) ELSE Append(Append(@, zh), en)],
         ident |-> [idn EXCEPT !.ocr_menu_items = ocr_item_id]]

RECURSIVE StageItems(_, _, _, _, _)
\* the loop of app.py:1036-1069 from position k on; count is item_count
StageItems(d, idn, ocr_menu_id, items, k) ==
    IF k > Len(items) THEN [db |-> d, ident |-> idn, count |-> 0]
    ELSE IF ~ Recognized(items[k]) THEN StageItems(d, idn, ocr_menu_id, items, k + 1)
    ELSE LET one == StageOneItem(d, idn, ocr_menu_id, items[k])
             rest == StageItems(one.db, one.ident, ocr_menu_id, items, k + 1)
         IN  [rest EXCEPT !.count = @ + 1]

\* number of items of a result that upload_ocr stages
RecognizedCount(items) == Cardinality({k \in 1..Len(items) : Recognized(items[k])})

\* POST /upload_ocr with form store_id and the recognition result menu_items,
\* as one step: what the request commits (its flash is left out)
UploadOcr(store_id, menu_items) ==
    /\ Idle
    /\ ident.ocr_menus < MaxOcrMenus
    /\ ident.ocr_menu_items + RecognizedCount(menu_items) <= MaxOcrItems
    /\ UNCHANGED <<DB_TYPE, session, req, faults>>
    /\ IF "username" \notin session
       THEN UNCHANGED <<db, ident>>
       ELSE IF menu_items = <<>> \/ StoresWithId(db, store_id) = <<>>
       THEN UNCHANGED <<db, ident>>
       ELSE \/ LET store_name == StoresWithId(db, store_id)[1].store_name
                   ocr_menu_id == ident.ocr_menus + 1
                   d1 == [db EXCEPT !.ocr_menus =
                            Append(@, [ocr_menu_id |-> ocr_menu_id, store_name |-> store_name,
                                       store_id |-> store_id])]
                   done == StageItems(d1, [ident EXCEPT !.ocr_menus = ocr_menu_id],
                                      ocr_menu_id, menu_items, 1)
               IN  /\ db' = done.db
                   /\ ident' = done.ident
            \/ \* a statement raises: rollback (app.py:1076-1080)
               UNCHANGED <<db, ident>>
    /\ last' = IF db' = db THEN last ELSE NoLast

\* ----------------------------------------------------- add_ocr_menu_item
\* request.form of POST /add_ocr_menu_item (store_name apart)
OcrItemForms ==
    { [item_name |-> "n4", price_small |-> "30", price_big |-> "",
       lang_codes |-> <<"en", "en">>, descriptions |-> <<"d1", "d2">>],
      [item_name |-> "n5", price_small |-> "", price_big |-> "40",
       lang_codes |-> <<"ja">>, descriptions |-> <<"d3">>] }

RECURSIVE ZipFilled(_, _, _, _)
\* zip(lang_codes, descriptions) keeping the pairs with both values non-empty,
\* as rows of item id (app.py:1406-1412)
ZipFilled(id, lang_codes, descriptions, k) ==
    IF k > Len(lang_codes) \/ k > Len(descriptions) THEN <<>>
    ELSE (IF lang_codes[k] # "" /\ descriptions[k] # ""
          THEN <<[menu_item_id |-> id, lang_code |-> lang_codes[k],
                  description |-> descriptions[k]]>>
          ELSE <<>>) \o ZipFilled(id, lang_codes, descriptions, k + 1)

\* POST /add_ocr_menu_item as one step: what the request commits (its flash is
\* left out; item names stay under the 100 characters of
\* validate_ocr_menu_item_data)
AddOcrMenuItem(store_name, form) ==
    /\ Idle
    /\ OcrMenuIdsOf(db, store_name) # {} \/ ident.ocr_menus < MaxOcrMenus
    /\ ident.ocr_menu_items < MaxOcrItems
    /\ UNCHANGED <<DB_TYPE, session, req, faults>>
    /\ IF "username" \notin session
       THEN UNCHANGED <<db, ident>>
       ELSE IF store_name = "" \/ form.item_name = "" \/ form.price_small = ""
       THEN UNCHANGED <<db, ident>>
       ELSE \/ LET found == SelectSeq(db.ocr_menus, LAMBDA r : r.store_name = store_name)
                   store_row == StoresNamed(db, store_name)
                   store_id == IF store_row = <<>> THEN NoId ELSE store_row[1].store_id
                   ocr_menu_id == IF found # <<>> THEN found[1].ocr_menu_id
                                  ELSE ident.ocr_menus + 1
                   new_item_id == ident.ocr_menu_items + 1
               IN  /\ db' = [db EXCEPT
                        !.ocr_menus =
                            IF found # <<>> THEN @
                            ELSE Append(@, [ocr_menu_id |-> ocr_menu_id,
                                            store_name |-> store_name, store_id |-> store_id]),
                        !.ocr_menu_items =
                            Append(@, [ocr_menu_item_id |-> new_item_id,
                                       ocr_menu_id |-> ocr_menu_id,
                                       item_name |-> form.item_name,
                                       price_big |-> IF form.price_big = "" THEN NULL
                                                     ELSE form.price_big,
                                       price_small |-> form.price_small,
                                       translated_desc |-> NULL]),
                        !.ocr_menu_translations =
                            @ \o ZipFilled(new_item_id, form.lang_codes, form.descriptions, 1)]
                   /\ ident' = [ident EXCEPT
                        !.ocr_menus = IF found # <<>> THEN @ ELSE ocr_menu_id,
                        !.ocr_menu_items = new_item_id]
            \/ \* a statement raises: rollback (app.py:1417-1421)
               UNCHANGED <<db, ident>>
    /\ last' = IF db' = db THEN last ELSE NoLast

\* ------------------------------------------------------- import_ocr_menu
\* Each action below is one step of the handler for the request of worker p;
\* a cursor.execute() or a commit either succeeds or raises.

Serve(p, r) == req' = [req EXCEPT ![p] = r]

\* the step's statement succeeds
Succeeds == UNCHANGED faults

\* the step's statement raises a driver exception
Raises == faults < MaxFaults /\ faults' = faults + 1

\* ImportBegin without the session check of app.py:841
ImportBeginNoSessionCheck(p, name) ==
    /\ Idle
    /\ ident.menus < MaxMenus
    /\ LET r == [IdleReq EXCEPT !.handler = "import_ocr_menu",
                                !.ocr_store_name = name, !.pre = db, !.pre_ident = ident,
                                !.retried = last.storage_error /\ last.ocr_store_name = name,
                                !.first_pre = last.pre]
       IN  IF name = ""
           THEN Serve(p, [r EXCEPT !.flashes = Append(@, Flash("error", MsgNameMissing, "", 0, "")),
                                   !.response = "redirect_admin_ocr", !.pc = "done"])
           ELSE Serve(p, [r EXCEPT !.pc = "connect"])
    /\ last' = NoLast
    /\ UNCHANGED <<DB_TYPE, session, db, ident, faults>>

\* ImportBegin without the store name check of app.py:846
ImportBeginNoNameCheck(p, name) ==
    /\ Idle
    /\ ident.menus < MaxMenus
    /\ LET r == [IdleReq EXCEPT !.handler = "import_ocr_menu",
                                !.ocr_store_name = name, !.pre = db, !.pre_ident = ident,
                                !.retried = last.storage_error /\ last.ocr_store_name = name,
                                !.first_pre = last.pre]
       IN  IF "username" \notin session
           THEN Serve(p, [r EXCEPT !.flashes = Append(@, Flash("error", MsgLoginRequired, "", 0, "")),
                                   !.response = "redirect_home", !.pc = "done"])
           ELSE Serve(p, [r EXCEPT !.pc = "connect"])
    /\ last' = NoLast
    /\ UNCHANGED <<DB_TYPE, session, db, ident, faults>>

\* app.py:841-848: the session and form checks of a request that worker p
\* takes up
ImportEnter(p, name) ==
    /\ req[p].pc = "idle"
    /\ ident.menus < MaxMenus
    /\ LET r == [IdleReq EXCEPT !.handler = "import_ocr_menu",
                                !.ocr_store_name = name, !.pre = db, !.pre_ident = ident,
                                !.retried = last.storage_error /\ last.ocr_store_name = name,
                                !.first_pre = last.pre]
       IN  IF "username" \notin session
           THEN Serve(p, [r EXCEPT !.flashes = Append(@, Flash("error", MsgLoginRequired, "", 0, "")),
                                   !.response = "redirect_home", !.pc = "done"])
           ELSE IF name = ""
           THEN Serve(p, [r EXCEPT !.flashes = Append(@, Flash("error", MsgNameMissing, "", 0, "")),
                                   !.response = "redirect_admin_ocr", !.pc = "done"])
           ELSE Serve(p, [r EXCEPT !.pc = "connect"])
    /\ last' = NoLast
    /\ UNCHANGED <<DB_TYPE, session, db, ident, faults>>

\* a request arrives while no other is being served
ImportBegin(p, name) == Idle /\ ImportEnter(p, name)

\* app.py:850-855 with get_db_connection (195-204): a failed connect is logged
\* and raised again, outside the handler's try
Connect(p) ==
    /\ req[p].pc = "connect"
    /\ \/ /\ Succeeds
          /\ Serve(p, [req[p] EXCEPT !.conn = "open", !.connects = @ + 1,
                                     !.pc = "select_store"])
       \/ /\ Raises
          /\ Serve(p, [req[p] EXCEPT !.log = Append(@, [level |-> "error", err |-> DbErrorText]),
                                     !.failed_at = "connect",
                                     !.escaped = DbErrorText, !.response = "error_500",
                                     !.pc = "done"])
    /\ UNCHANGED <<DB_TYPE, session, db, ident, last>>

\* app.py:859-865
SelectStore(p) ==
    /\ req[p].pc = "select_store"
    /\ LET r == Executed(req[p], 1)
           store_row == StoresNamed(View(db, r.tx), r.ocr_store_name)
       IN  \/ /\ Succeeds
              /\ IF store_row = <<>>
                 THEN Serve(p, [Close(r) EXCEPT
                           !.flashes = Append(@, Flash("error", MsgStoreNotFound,
                                                       r.ocr_store_name, 0, "")),
                           !.response = "redirect_admin_ocr", !.pc = "finally"])
                 ELSE Serve(p, [r EXCEPT !.store_id = store_row[1].store_id,
                                         !.pc = "insert_menu"])
           \/ /\ Raises
              /\ Serve(p, Raise(r))
    /\ UNCHANGED <<DB_TYPE, session, db, ident, last>>

\* MenuRow with a version that grows with the generated key
MenuRowVersionFromId(menu_id, store_id) ==
    [menu_id |-> menu_id, store_id |-> store_id, version |-> menu_id]

\* the menus row of app.py:869-873 (effective_date and created_at, the time of
\* the call, are left out)
MenuRow(menu_id, store_id) == [menu_id |-> menu_id, store_id |-> store_id, version |-> 1]

\* app.py:867-878
InsertMenu(p) ==
    /\ req[p].pc = "insert_menu"
    /\ LET r == req[p]
           menu_id == ident.menus + 1
           inserted == [Executed(r, 1) EXCEPT !.tx.menus = Append(@, MenuRow(menu_id, r.store_id))]
       IN  \/ /\ Succeeds
              /\ Serve(p, [Executed(inserted, IdentityStatements) EXCEPT
                              !.menu_id = menu_id, !.pc = "select_items"])
              /\ ident' = [ident EXCEPT !.menus = menu_id]
           \/ /\ Raises
              /\ Serve(p, Raise(Executed(r, 1)))
              /\ UNCHANGED ident
           \/ /\ DB_TYPE = "SQL_SERVER"
              /\ Raises
              /\ Serve(p, Raise(Executed(inserted, 1)))
              /\ ident' = [ident EXCEPT !.menus = menu_id]
    /\ UNCHANGED <<DB_TYPE, session, db, last>>

\* SelectItems with a commit before the close when nothing is staged
SelectItemsCommitsWhenEmpty(p) ==
    /\ req[p].pc = "select_items"
    /\ LET r == Executed(req[p], 1)
           ocr_items == OcrItemsOf(View(db, r.tx), r.ocr_store_name)
       IN  \/ /\ Succeeds
              /\ IF ocr_items = <<>>
                 THEN /\ db' = View(db, r.tx)
                      /\ Serve(p, [Close(r) EXCEPT
                           !.flashes = Append(@, Flash("success", MsgNothingToImport,
                                                       r.ocr_store_name, 0, "")),
                           !.response = "redirect_admin_ocr", !.pc = "finally"])
                 ELSE /\ UNCHANGED db
                      /\ Serve(p, [r EXCEPT !.ocr_items = ocr_items, !.imported_count = 0,
                                         !.i = 1, !.pc = "insert_item"])
           \/ /\ Raises
              /\ UNCHANGED db
              /\ Serve(p, Raise(r))
    /\ UNCHANGED <<DB_TYPE, session, ident, last>>

\* app.py:880-894
SelectItems(p) ==
    /\ req[p].pc = "select_items"
    /\ LET r == Executed(req[p], 1)
           ocr_items == OcrItemsOf(View(db, r.tx), r.ocr_store_name)
       IN  \/ /\ Succeeds
              /\ IF ocr_items = <<>>
                 THEN Serve(p, [Close(r) EXCEPT
                           !.flashes = Append(@, Flash("success", MsgNothingToImport,
                                                       r.ocr_store_name, 0, "")),
                           !.response = "redirect_admin_ocr", !.pc = "finally"])
                 ELSE Serve(p, [r EXCEPT !.ocr_items = ocr_items, !.imported_count = 0,
                                         !.i = 1, !.pc = "insert_item"])
           \/ /\ Raises
              /\ Serve(p, Raise(r))
    /\ UNCHANGED <<DB_TYPE, session, db, ident, last>>

\* app.py:921 and the loop heads at 898 and 916: once the item's translations
\* are all inserted, count it and go on to the next item or to the deletes
NextTranslation(r) ==
    IF r.j <= Len(r.ocr_translations) THEN [r EXCEPT !.pc = "insert_translation"]
    ELSE IF r.i < Len(r.ocr_items)
         THEN [r EXCEPT !.imported_count = @ + 1, !.i = @ + 1, !.pc = "insert_item"]
         ELSE [r EXCEPT !.imported_count = @ + 1, !.pc = "delete_translations"]

\* MenuItemRow with the two prices in each other's column
MenuItemRowPricesSwapped(id, menu_id, ocr_item) ==
    [menu_item_id |-> id, menu_id |-> menu_id, item_name |-> ocr_item.item_name,
     price_big |-> ocr_item.price_small, price_small |-> ocr_item.price_big]

\* the menu_items row made of a staged item (app.py:899-902)
MenuItemRow(id, menu_id, ocr_item) ==
    [menu_item_id |-> id, menu_id |-> menu_id, item_name |-> ocr_item.item_name,
     price_big |-> ocr_item.price_big, price_small |-> ocr_item.price_small]

\* InsertItem that attaches the item to the oldest menu of the store when the
\* store has one already
InsertItemUnderOldestMenu(p) ==
    /\ req[p].pc = "insert_item"
    /\ LET r == req[p]
           new_menu_item_id == ident.menu_items + 1
           of_store == SelectSeq(View(db, r.tx).menus, LAMBDA m : m.store_id = r.store_id)
           inserted == [Executed(r, 1) EXCEPT
                          !.tx.menu_items =
                              Append(@, MenuItemRow(new_menu_item_id, of_store[1].menu_id,
                                                    r.ocr_items[r.i]))]
       IN  \/ /\ Succeeds
              /\ Serve(p, [Executed(inserted, IdentityStatements) EXCEPT
                              !.new_menu_item_id = new_menu_item_id,
                              !.pc = "select_translations"])
              /\ ident' = [ident EXCEPT !.menu_items = new_menu_item_id]
           \/ /\ Raises
              /\ Serve(p, Raise(Executed(r, 1)))
              /\ UNCHANGED ident
    /\ UNCHANGED <<DB_TYPE, session, db, last>>

\* app.py:899-907
InsertItem(p) ==
    /\ req[p].pc = "insert_item"
    /\ LET r == req[p]
           new_menu_item_id == ident.menu_items + 1
           inserted == [Executed(r, 1) EXCEPT
                          !.tx.menu_items =
                              Append(@, MenuItemRow(new_menu_item_id, r.menu_id, r.ocr_items[r.i]))]
       IN  \/ /\ Succeeds
              /\ Serve(p, [Executed(inserted, IdentityStatements) EXCEPT
                              !.new_menu_item_id = new_menu_item_id,
                              !.pc = "select_translations"])
              /\ ident' = [ident EXCEPT !.menu_items = new_menu_item_id]
           \/ /\ Raises
              /\ Serve(p, Raise(Executed(r, 1)))
              /\ UNCHANGED ident
           \/ /\ DB_TYPE = "SQL_SERVER"
              /\ Raises
              /\ Serve(p, Raise(Executed(inserted, 1)))
              /\ ident' = [ident EXCEPT !.menu_items = new_menu_item_id]
    /\ UNCHANGED <<DB_TYPE, session, db, last>>

\* app.py:909-914
SelectTranslations(p) ==
    /\ req[p].pc = "select_translations"
    /\ LET r == Executed(req[p], 1)
           rows == OcrTranslationsOf(View(db, r.tx), r.ocr_items[r.i].ocr_menu_item_id)
           ocr_translations ==
               [k \in 1..Len(rows) |->
                   [lang_code |-> rows[k].lang_code, description |-> rows[k].description]]
       IN  \/ /\ Succeeds
              /\ Serve(p, NextTranslation([r EXCEPT !.ocr_translations = ocr_translations,
                                                    !.j = 1]))
           \/ /\ Raises
              /\ Serve(p, Raise(r))
    /\ UNCHANGED <<DB_TYPE, session, db, ident, last>>

\* the menu_translations row made of a staged translation (app.py:917-920)
TranslationRow(id, trans) ==
    [menu_item_id |-> id, lang_code |-> trans.lang_code, description |-> trans.description]

\* app.py:916-920
InsertTranslation(p) ==
    /\ req[p].pc = "insert_translation"
    /\ LET r == Executed(req[p], 1)
       IN  \/ /\ Succeeds
              /\ Serve(p, NextTranslation([r EXCEPT
                    !.tx.menu_translations =
                        Append(@, TranslationRow(r.new_menu_item_id, r.ocr_translations[r.j])),
                    !.j = @ + 1]))
           \/ /\ Raises
              /\ Serve(p, Raise(r))
    /\ UNCHANGED <<DB_TYPE, session, db, ident, last>>

\* the menu_item_id values matched by the subquery of app.py:930-937
StagedTranslationKeys(d, name) ==
    {r.ocr_menu_item_id : r \in Range(OcrItemsOf(d, name))}

\* the ocr_menu_items rows matched by app.py:943-948
StagedItemIds(d, name) ==
    {r.ocr_menu_item_id :
        r \in {x \in Range(d.ocr_menu_items) : x.ocr_menu_id \in OcrMenuIdsOf(d, name)}}

\* DeleteTranslations with the ocr_menus rows deleted first
DeleteTranslationsDeletesMenus(p) ==
    /\ req[p].pc = "delete_translations"
    /\ LET r == Executed(req[p], 1)
       IN  \/ /\ Succeeds
              /\ Serve(p, [r EXCEPT
                    !.tx.del_ocr_menus =
                        @ \cup OcrMenuIdsOf(View(db, r.tx), r.ocr_store_name),
                    !.pc = "delete_items"])
           \/ /\ Raises
              /\ Serve(p, Raise(r))
    /\ UNCHANGED <<DB_TYPE, session, db, ident, last>>

\* app.py:928-939
DeleteTranslations(p) ==
    /\ req[p].pc = "delete_translations"
    /\ LET r == Executed(req[p], 1)
       IN  \/ /\ Succeeds
              /\ Serve(p, [r EXCEPT
                    !.tx.del_ocr_menu_translations =
                        @ \cup StagedTranslationKeys(View(db, r.tx), r.ocr_store_name),
                    !.pc = "delete_items"])
           \/ /\ Raises
              /\ Serve(p, Raise(r))
    /\ UNCHANGED <<DB_TYPE, session, db, ident, last>>

\* app.py:941-950
DeleteItems(p) ==
    /\ req[p].pc = "delete_items"
    /\ LET r == Executed(req[p], 1)
       IN  \/ /\ Succeeds
              /\ Serve(p, [r EXCEPT
                    !.tx.del_ocr_menu_items =
                        @ \cup StagedItemIds(View(db, r.tx), r.ocr_store_name),
                    !.pc = "delete_menus"])
           \/ /\ Raises
              /\ Serve(p, Raise(r))
    /\ UNCHANGED <<DB_TYPE, session, db, ident, last>>

\* DeleteMenus without the WHERE store_name clause
DeleteMenusOfAnyStore(p) ==
    /\ req[p].pc = "delete_menus"
    /\ LET r == Executed(req[p], 1)
       IN  \/ /\ Succeeds
              /\ Serve(p, [r EXCEPT
                    !.tx.del_ocr_menus =
                        @ \cup {m.ocr_menu_id : m \in Range(View(db, r.tx).ocr_menus)},
                    !.pc = "commit"])
           \/ /\ Raises
              /\ Serve(p, Raise(r))
    /\ UNCHANGED <<DB_TYPE, session, db, ident, last>>

\* app.py:952-954
DeleteMenus(p) ==
    /\ req[p].pc = "delete_menus"
    /\ LET r == Executed(req[p], 1)
       IN  \/ /\ Succeeds
              /\ Serve(p, [r EXCEPT
                    !.tx.del_ocr_menus =
                        @ \cup OcrMenuIdsOf(View(db, r.tx), r.ocr_store_name),
                    !.pc = "commit"])
           \/ /\ Raises
              /\ Serve(p, Raise(r))
    /\ UNCHANGED <<DB_TYPE, session, db, ident, last>>

\* the flash of app.py:959
ImportedFlash(r) == Flash("success", MsgImported, r.ocr_store_name, r.imported_count, "")

\* Commit with a commit that publishes the transaction and then raises
CommitPublishesThenRaises(p) ==
    /\ req[p].pc = "commit"
    /\ LET r == req[p]
       IN  \/ /\ Succeeds
              /\ db' = View(db, r.tx)
              /\ Serve(p, [r EXCEPT !.tx = EmptyTx, !.commits = @ + 1,
                                    !.flashes = Append(@, ImportedFlash(r)),
                                    !.response = "redirect_admin_menu", !.pc = "finally"])
           \/ /\ Raises
              /\ db' = View(db, r.tx)
              /\ Serve(p, Raise(r))
    /\ UNCHANGED <<DB_TYPE, session, ident, last>>

\* app.py:957-960: conn.commit() publishes the transaction, or raises and
\* publishes nothing
Commit(p) ==
    /\ req[p].pc = "commit"
    /\ LET r == req[p]
       IN  \/ /\ Succeeds
              /\ db' = View(db, r.tx)
              /\ Serve(p, [r EXCEPT !.tx = EmptyTx, !.commits = @ + 1,
                                    !.flashes = Append(@, ImportedFlash(r)),
                                    !.response = "redirect_admin_menu", !.pc = "finally"])
           \/ /\ Raises
              /\ UNCHANGED db
              /\ Serve(p, Raise(r))
    /\ UNCHANGED <<DB_TYPE, session, ident, last>>

\* the flash of app.py:966: the text of the exception is part of the message
FailedFlash(r) == Flash("error", MsgImportFailed, "", 0, r.raised)

\* the tables after conn.rollback() on the connection of r (app.py:964)
RolledBack(r) == [r EXCEPT !.tx = EmptyTx, !.rollbacks = @ + 1]

\* Except with conn.commit() where the rollback belongs
ExceptCommits(p) ==
    /\ req[p].pc = "except"
    /\ LET r == req[p]
       IN  \/ /\ db' = View(db, r.tx)
              /\ Serve(p, [r EXCEPT !.tx = EmptyTx, !.commits = @ + 1,
                                 !.log = Append(@, [level |-> "error", err |-> r.raised]),
                                 !.flashes = Append(@, FailedFlash(r)),
                                 !.raised = "",
                                 !.response = "redirect_admin_ocr", !.pc = "finally"])
           \/ /\ UNCHANGED db
              /\ Serve(p, [r EXCEPT !.raised = DbErrorText, !.pc = "finally"])
    /\ UNCHANGED <<DB_TYPE, session, ident, last, faults>>

\* app.py:962-967: rollback, log, flash; a rollback that raises leaves the
\* except clause with the new exception
Except(p) ==
    /\ req[p].pc = "except"
    /\ LET r == req[p]
       IN  \/ Serve(p, [RolledBack(r) EXCEPT
                                 !.log = Append(@, [level |-> "error", err |-> r.raised]),
                                 !.flashes = Append(@, FailedFlash(r)),
                                 !.raised = "",
                                 !.response = "redirect_admin_ocr", !.pc = "finally"])
           \/ Serve(p, [r EXCEPT !.raised = DbErrorText, !.pc = "finally"])
    /\ UNCHANGED <<DB_TYPE, session, db, ident, last, faults>>

\* conn.close() on a connection that is already closed: pyodbc raises
\* ProgrammingError, mysql.connector returns
ClosedAgainRaises(r) == r.conn = "closed" /\ DB_TYPE = "SQL_SERVER"

\* app.py:968-971: the finally clause closes the connection, after which the
\* pending return or exception leaves the handler
Finally(p) ==
    /\ req[p].pc = "finally"
    /\ LET r == req[p]
           escaped == IF ClosedAgainRaises(r) THEN ClosedText ELSE r.raised
       IN  Serve(p, [Close(r) EXCEPT
                 !.raised = "", !.escaped = escaped,
                 !.response = IF escaped # "" THEN "error_500" ELSE r.response,
                 !.pc = "done"])
    /\ UNCHANGED <<DB_TYPE, session, db, ident, last, faults>>

\* the response is delivered and the worker is free again
Return(p) ==
    /\ req[p].pc = "done"
    /\ Serve(p, IdleReq)
    /\ last' = IF StorageError(req[p])
               THEN [ocr_store_name |-> req[p].ocr_store_name, storage_error |-> TRUE,
                     pre |-> req[p].pre]
               ELSE NoLast
    /\ UNCHANGED <<DB_TYPE, session, db, ident, faults>>

\* ------------------------------------------------------------------ Next
ImportStep(p) ==
    \/ Connect(p)
    \/ SelectStore(p)
    \/ InsertMenu(p)
    \/ SelectItems(p)
    \/ InsertItem(p)
    \/ SelectTranslations(p)
    \/ InsertTranslation(p)
    \/ DeleteTranslations(p)
    \/ DeleteItems(p)
    \/ DeleteMenus(p)
    \/ Commit(p)
    \/ Except(p)
    \/ Finally(p)
    \/ Return(p)

Next ==
    \/ \E ok \in BOOLEAN : Login(ok)
    \/ Logout
    \/ \E id \in UploadStoreIds, items \in OcrResults :
          UploadOcr(id, items)
    \/ \E name \in StoreNames, form \in OcrItemForms : AddOcrMenuItem(name, form)
    \/ \E p \in Sequential, name \in FormStoreNames : ImportBegin(p, name)
    \/ \E p \in Procs : ImportStep(p)

Spec == Init /\ [][Next]_vars

\* ======================================================================
\* The item handlers: add_menu_item, edit_menu_item, edit_ocr_menu_item
\* ======================================================================
\* A handler of these is one step: the statements of its try block run on the
\* connection in order, then the commit; the first one that raises ends the run
\* in the except clause (rollback).  Item names stay under the 100 characters
\* of validate_menu_item_data and validate_ocr_menu_item_data.

MsgRequiredFields == "required_fields"          \* app.py:616, 740, 1244
MsgItemUpdated == "item_updated"                \* app.py:669
MsgItemUpdateFailed == "item_update_failed"     \* app.py:673
MsgOcrItemUpdated == "ocr_item_updated"         \* app.py:775
MsgOcrItemUpdateFailed == "ocr_item_update_failed"  \* app.py:782
MsgItemAdded == "item_added"                    \* app.py:1298
MsgItemAddFailed == "item_add_failed"           \* app.py:1302

\* request.form of the production item handlers: translations lists of unequal
\* length with an empty description, a language given twice, no price_small
MenuItemForms ==
    { [item_name |-> "m1", price_small |-> "50", price_big |-> "", translated_desc |-> "",
       lang_codes |-> <<"en", "ja", "zh">>, descriptions |-> <<"e1", "">>],
      [item_name |-> "m2", price_small |-> "60", price_big |-> "70", translated_desc |-> "",
       lang_codes |-> <<"en", "en">>, descriptions |-> <<"e2", "e3">>],
      [item_name |-> "m3", price_small |-> "", price_big |-> "", translated_desc |-> "",
       lang_codes |-> <<"en">>, descriptions |-> <<"e4">>] }

\* request.form of edit_ocr_menu_item
OcrEditForms ==
    { [item_name |-> "o1", price_small |-> "35", price_big |-> "", translated_desc |-> "td",
       lang_codes |-> <<"ja", "">>, descriptions |-> <<"j1", "x">>],
      [item_name |-> "", price_small |-> "35", price_big |-> "", translated_desc |-> "",
       lang_codes |-> <<>>, descriptions |-> <<>>] }

\* the <int:item_id> and <int:store_id> of the routes
ItemIds == {1, 2}
StoreIds == {1, 2}

\* request.form.get(field) or None
OrNone(value) == IF value = "" THEN NULL ELSE value

\* one cursor.execute(): op on table, for the row with key id or with the new row
Statement(op, table, id, row) == [op |-> op, table |-> table, id |-> id, row |-> row]

\* the key column of an items table
KeyOf(table) ==
    CASE table = "ocr_menu_items" -> "ocr_menu_item_id"
      [] table = "stores" -> "store_id"
      [] OTHER -> "menu_item_id"

\* the tables d after statement st
Apply(d, st) ==
    CASE st.op = "insert" -> [d EXCEPT ![st.table] = Append(@, st.row)]
      [] st.op = "update" ->
            [d EXCEPT ![st.table] =
                [k \in 1..Len(d[st.table]) |->
                    IF d[st.table][k][KeyOf(st.table)] = st.id
                    THEN [f \in DOMAIN d[st.table][k] |->
                            IF f \in DOMAIN st.row THEN st.row[f] ELSE d[st.table][k][f]]
                    ELSE d[st.table][k]]]
      [] st.op = "delete" ->
            [d EXCEPT ![st.table] = SelectSeq(@, LAMBDA r : r.menu_item_id # st.id)]
      [] OTHER -> d

RECURSIVE RunStatements(_, _, _)
\* the tables d after the statements stmts from position k on
RunStatements(d, stmts, k) ==
    IF k > Len(stmts) THEN d ELSE RunStatements(Apply(d, stmts[k]), stmts, k + 1)

\* the identity counters after the inserts among stmts
IdentAfter(idn, stmts) ==
    [t \in DOMAIN idn |->
        idn[t] + Cardinality({k \in 1..Len(stmts) :
                                 stmts[k].op = "insert" /\ stmts[k].table = t})]

\* the INSERTs of the zip loop (app.py:660-666, 764-772, 1289-1295)
InsertTranslations(table, item_id, form) ==
    LET rows == ZipFilled(item_id, form.lang_codes, form.descriptions, 1)
    IN  [k \in 1..Len(rows) |-> Statement("insert", table, NoId, rows[k])]

\* SELECT @@IDENTITY after an insert, under SQL_SERVER only
SelectIdentity ==
    IF DB_TYPE = "MYSQL" THEN <<>> ELSE <<Statement("identity", "", NoId, <<>>)>>

\* the request record of an item handler when it starts
Started(handler, id, form) ==
    [IdleReq EXCEPT !.handler = handler, !.item_id = id, !.form = form, !.pre = db,
                    !.session_before = session]

\* flash and return
Answer(r, category, msg, response) ==
    [r EXCEPT !.flashes = Append(@, Flash(category, msg, "", 0, "")),
              !.response = response, !.pc = "done"]

\* NotLoggedIn after get_db_connection()
NotLoggedInConnects(p, r) ==
    /\ Serve(p, Answer([r EXCEPT !.conn = "open", !.connects = 1],
                       "message", MsgLoginRequired, "redirect_home"))
    /\ UNCHANGED <<db, ident, faults>>

\* app.py:604-606, 717-719, 1231-1233
NotLoggedIn(p, r) ==
    /\ Serve(p, Answer(r, "message", MsgLoginRequired, "redirect_home"))
    /\ UNCHANGED <<db, ident, faults>>

\* get_db_connection() raises, outside any try (app.py:608, 721, 1235)
ConnectFails(p, r) ==
    /\ Raises
    /\ Serve(p, [r EXCEPT !.log = Append(@, [level |-> "error", err |-> DbErrorText]),
                          !.failed_at = "connect", !.escaped = DbErrorText,
                          !.response = "error_500", !.pc = "done"])
    /\ UNCHANGED <<db, ident>>

\* a required field is missing: flash and redirect, the connection left open
\* (app.py:615-617, 739-741, 1243-1245)
MissingFields(p, r, response) ==
    /\ Succeeds
    /\ Serve(p, Answer([r EXCEPT !.conn = "open", !.connects = 1],
                       "message", MsgRequiredFields, response))
    /\ UNCHANGED <<db, ident>>

\* the try block runs to its end: commit, flash, close
Commits(p, r, stmts, category, msg, response) ==
    /\ Succeeds
    /\ db' = RunStatements(db, stmts, 1)
    /\ ident' = IdentAfter(ident, stmts)
    /\ Serve(p, Answer([r EXCEPT !.connects = 1, !.statements = @ + Len(stmts),
                                 !.commits = 1, !.conn = "closed", !.closes = 1],
                       category, msg, response))

\* statement k of the try block (or the commit, after the last) raises: the
\* except clause rolls back, or the rollback raises and the close discards
\* the work
Fails(p, r, stmts, category, msg, response) ==
    \E k \in 1..(Len(stmts) + 1) :
        /\ Raises
        /\ db' = db
        /\ ident' = IdentAfter(ident, SubSeq(stmts, 1, k - 1))
        /\ LET f == [r EXCEPT !.connects = 1,
                              !.statements = @ + (IF k > Len(stmts) THEN Len(stmts) ELSE k),
                              !.failed_at = IF k > Len(stmts) THEN "commit" ELSE stmts[k].op,
                              !.conn = "closed", !.closes = 1]
           IN  \/ Serve(p, Answer([f EXCEPT !.rollbacks = 1,
                                            !.log = Append(@, [level |-> "error",
                                                               err |-> DbErrorText])],
                                  category, msg, response))
               \/ Serve(p, [f EXCEPT !.escaped = DbErrorText, !.response = "error_500",
                                     !.pc = "done"])

\* ---------------------------------------------------------- add_menu_item
\* SELECT menu_id FROM menus WHERE store_id = ? ORDER BY version DESC, first
\* row: a row of the store with the highest version (which one of several is
\* the engine's choice)
LatestMenus(d, store_id) ==
    {m \in Range(d.menus) :
        /\ m.store_id = store_id
        /\ \A o \in Range(d.menus) : o.store_id = store_id => o.version <= m.version}

\* AddMenuItemStatements with a new menus row for every item
AddMenuItemStatementsAlwaysNewMenu(store_id, form, found) ==
    LET menu_id == ident.menus + 1
        new_item_id == ident.menu_items + 1
    IN  <<Statement("select", "menus", store_id, <<>>),
          Statement("insert", "menus", NoId, MenuRow(menu_id, store_id))>>
        \o SelectIdentity
        \o <<Statement("insert", "menu_items", NoId,
                       [menu_item_id |-> new_item_id, menu_id |-> menu_id,
                        item_name |-> form.item_name, price_big |-> OrNone(form.price_big),
                        price_small |-> form.price_small])>>
        \o SelectIdentity
        \o InsertTranslations("menu_translations", new_item_id, form)

\* the try block of add_menu_item (app.py:1252-1295); found is the menu_id the
\* SELECT returned, NoId when it returned no row
AddMenuItemStatements(store_id, form, found) ==
    LET menu_id == IF found = NoId THEN ident.menus + 1 ELSE found
        new_item_id == ident.menu_items + 1
    IN  <<Statement("select", "menus", store_id, <<>>)>>
        \o (IF found = NoId
            THEN <<Statement("insert", "menus", NoId, MenuRow(menu_id, store_id))>>
                 \o SelectIdentity
            ELSE <<>>)
        \o <<Statement("insert", "menu_items", NoId,
                       [menu_item_id |-> new_item_id, menu_id |-> menu_id,
                        item_name |-> form.item_name, price_big |-> OrNone(form.price_big),
                        price_small |-> form.price_small])>>
        \o SelectIdentity
        \o InsertTranslations("menu_translations", new_item_id, form)

\* POST /add_menu_item/<store_id> (app.py:1229-1307)
AddMenuItem(p, store_id, form) ==
    /\ Idle
    /\ ident.menu_items < MaxMenuItems
    /\ LatestMenus(db, store_id) # {} \/ ident.menus < MaxMenus
    /\ LET r == [Started("add_menu_item", NoId, form) EXCEPT !.store_id = store_id]
       IN  IF "username" \notin session THEN NotLoggedIn(p, r)
           ELSE \/ ConnectFails(p, r)
                \/ IF form.item_name = "" \/ form.price_small = ""
                   THEN MissingFields(p, r, "redirect_add_menu_item")
                   ELSE \E found \in (IF LatestMenus(db, store_id) = {} THEN {NoId}
                                      ELSE {m.menu_id : m \in LatestMenus(db, store_id)}) :
                          LET stmts == AddMenuItemStatements(store_id, form, found)
                          IN  \/ Commits(p, [r EXCEPT !.menu_id = stmts[Len(stmts)
                                                 - Len(InsertTranslations("menu_translations",
                                                                          NoId, form))
                                                 - Len(SelectIdentity)].row.menu_id],
                                         stmts, "success", MsgItemAdded, "redirect_admin_menu")
                              \/ Fails(p, r, stmts, "error", MsgItemAddFailed,
                                       "redirect_add_menu_item")
    /\ last' = IF db' = db THEN last ELSE NoLast
    /\ UNCHANGED <<DB_TYPE, session>>

\* --------------------------------------------------------- edit_menu_item
\* EditMenuItemStatements without the DELETE of the old translations
EditMenuItemStatementsNoDelete(item_id, form) ==
    <<Statement("select", "menu_items", item_id, <<>>),
      Statement("update", "menu_items", item_id,
                [item_name |-> form.item_name, price_big |-> OrNone(form.price_big),
                 price_small |-> form.price_small])>>
    \o InsertTranslations("menu_translations", item_id, form)

\* the try block of the POST of edit_menu_item (app.py:649-666)
EditMenuItemStatements(item_id, form) ==
    <<Statement("select", "menu_items", item_id, <<>>),
      Statement("update", "menu_items", item_id,
                [item_name |-> form.item_name, price_big |-> OrNone(form.price_big),
                 price_small |-> form.price_small]),
      Statement("delete", "menu_translations", item_id, <<>>)>>
    \o InsertTranslations("menu_translations", item_id, form)

\* POST /edit_menu_item/<item_id> (app.py:602-678)
EditMenuItem(p, item_id, form) ==
    /\ Idle
    /\ LET r == Started("edit_menu_item", item_id, form)
           stmts == EditMenuItemStatements(item_id, form)
       IN  IF "username" \notin session THEN NotLoggedIn(p, r)
           ELSE \/ ConnectFails(p, r)
                \/ IF form.item_name = "" \/ form.price_small = ""
                   THEN MissingFields(p, r, "redirect_edit_menu_item")
                   ELSE \/ Commits(p, r, stmts, "message", MsgItemUpdated,
                                   "redirect_admin_menu")
                        \/ Fails(p, r, stmts, "message", MsgItemUpdateFailed,
                                 "redirect_edit_menu_item")
    /\ last' = IF db' = db THEN last ELSE NoLast
    /\ UNCHANGED <<DB_TYPE, session>>

\* ----------------------------------------------------- edit_ocr_menu_item
\* the try block of the POST of edit_ocr_menu_item (app.py:750-772)
EditOcrMenuItemStatements(item_id, form) ==
    <<Statement("update", "ocr_menu_items", item_id,
                [item_name |-> form.item_name, price_big |-> OrNone(form.price_big),
                 price_small |-> form.price_small,
                 translated_desc |-> OrNone(form.translated_desc)]),
      Statement("delete", "ocr_menu_translations", item_id, <<>>)>>
    \o InsertTranslations("ocr_menu_translations", item_id, form)

\* the SELECT of app.py:730-737 raises, before the try: the exception leaves
\* the handler with the connection open
StoreNameQueryFails(p, r) ==
    /\ Raises
    /\ Serve(p, [r EXCEPT !.conn = "open", !.connects = 1, !.statements = 1,
                          !.failed_at = "select", !.escaped = DbErrorText,
                          !.response = "error_500", !.pc = "done"])
    /\ UNCHANGED <<db, ident>>

\* POST /edit_ocr_menu_item/<item_id> (app.py:715-787)
EditOcrMenuItem(p, item_id, form) ==
    /\ Idle
    /\ LET r == Started("edit_ocr_menu_item", item_id, form)
           queried == [r EXCEPT !.statements = 1]
           stmts == EditOcrMenuItemStatements(item_id, form)
       IN  IF "username" \notin session THEN NotLoggedIn(p, r)
           ELSE \/ ConnectFails(p, r)
                \/ StoreNameQueryFails(p, r)
                \/ IF form.item_name = "" \/ form.price_small = ""
                   THEN MissingFields(p, queried, "redirect_edit_ocr_menu_item")
                   ELSE \/ Commits(p, queried, stmts, "message", MsgOcrItemUpdated,
                                   "redirect_admin_ocr")
                        \/ Fails(p, queried, stmts, "message", MsgOcrItemUpdateFailed,
                                 "redirect_edit_ocr_menu_item")
    /\ last' = IF db' = db THEN last ELSE NoLast
    /\ UNCHANGED <<DB_TYPE, session>>

\* ------------------------------------------------- add_store, edit_store
MsgStoreAddFailed == "store_add_failed"             \* app.py:524
MsgTooLong == "too_long"                            \* app.py:240

\* a store_name of more than 100 characters
LongName == "L101"

\* request.form of add_store and edit_store: the store_name (partner_level is
\* always sent, the other columns are left out)
StoreForms == {[store_name |-> name] : name \in StoreNames \cup {"", LongName}}

\* validate_store_data(form) returns a message (app.py:225-242)
validate_store_data(form) == form.store_name = LongName

\* flash and return after the connection is acquired, without closing it
LeavesOpen(p, r, category, msg, response) ==
    /\ Succeeds
    /\ Serve(p, Answer([r EXCEPT !.conn = "open", !.connects = 1], category, msg, response))
    /\ UNCHANGED <<db, ident>>

\* the INSERT of add_store (app.py:502-514)
AddStoreStatements(form) ==
    <<Statement("insert", "stores", NoId,
                [store_id |-> ident.stores + 1, store_name |-> form.store_name])>>

\* add_store's try block fails (app.py:515-526): the connect raises, or the
\* INSERT (k = 1) or the commit (k = 2) raises and the connection is neither
\* rolled back nor closed
AddStoreFails(p, r, stmts) ==
    /\ Raises
    /\ db' = db
    /\ \/ /\ ident' = ident
          /\ Serve(p, Answer([r EXCEPT !.failed_at = "connect",
                                       !.log = Append(@, [level |-> "error",
                                                          err |-> DbErrorText])],
                             "message", MsgStoreAddFailed, "render_add_store"))
       \/ \E k \in 1..2 :
          /\ ident' = IdentAfter(ident, SubSeq(stmts, 1, k - 1))
          /\ Serve(p, Answer([r EXCEPT !.connects = 1, !.statements = 1, !.conn = "open",
                                       !.failed_at = IF k = 1 THEN "insert" ELSE "commit",
                                       !.log = Append(@, [level |-> "error",
                                                          err |-> DbErrorText])],
                             "message", MsgStoreAddFailed, "render_add_store"))

\* POST /add_store (app.py:488-526)
AddStore(p, form) ==
    /\ Idle
    /\ ident.stores < MaxStores
    /\ LET r == Started("add_store", NoId, form)
           stmts == AddStoreStatements(form)
       IN  IF "username" \notin session THEN NotLoggedIn(p, r)
           ELSE IF form.store_name = ""
           THEN /\ Serve(p, Answer(r, "message", "store_fields_required", "render_add_store"))
                /\ UNCHANGED <<db, ident, faults>>
           ELSE IF validate_store_data(form)
           THEN /\ Serve(p, Answer(r, "message", MsgTooLong, "render_add_store"))
                /\ UNCHANGED <<db, ident, faults>>
           ELSE \/ Commits(p, r, stmts, "message", "store_added", "redirect_admin")
                \/ AddStoreFails(p, r, stmts)
    /\ last' = IF db' = db THEN last ELSE NoLast
    /\ UNCHANGED <<DB_TYPE, session>>

\* the UPDATE of edit_store (app.py:556-567)
EditStoreStatements(store_id, form) ==
    <<Statement("update", "stores", store_id, [store_name |-> form.store_name])>>

\* the UPDATE (k = 1) or the commit (k = 2) of edit_store raises: flash and
\* log, no rollback; the finally clause closes (app.py:573-578)
EditStoreFails(p, r) ==
    \E k \in 1..2 :
        /\ Raises
        /\ UNCHANGED <<db, ident>>
        /\ Serve(p, Answer([r EXCEPT !.connects = 1, !.statements = 1,
                                     !.failed_at = IF k = 1 THEN "update" ELSE "commit",
                                     !.conn = "closed", !.closes = 1,
                                     !.log = Append(@, [level |-> "error",
                                                        err |-> DbErrorText])],
                           "message", "store_update_failed", "redirect_edit_store"))

\* POST /edit_store/<store_id> (app.py:534-579)
EditStore(p, store_id, form) ==
    /\ Idle
    /\ LET r == [Started("edit_store", NoId, form) EXCEPT !.store_id = store_id]
       IN  IF "username" \notin session THEN NotLoggedIn(p, r)
           ELSE \/ ConnectFails(p, r)
                \/ IF form.store_name = ""
                   THEN LeavesOpen(p, r, "message", "store_name_required", "render_edit_store")
                   ELSE IF validate_store_data(form)
                   THEN LeavesOpen(p, r, "message", MsgTooLong, "render_edit_store")
                   ELSE \/ Commits(p, r, EditStoreStatements(store_id, form),
                                   "message", "store_updated", "redirect_admin")
                        \/ EditStoreFails(p, r)
    /\ last' = IF db' = db THEN last ELSE NoLast
    /\ UNCHANGED <<DB_TYPE, session>>

\* ------------------------------------------- upload_ocr, with its answer
MsgUploaded == "uploaded"                           \* app.py:1073

\* the request record of upload_ocr when it starts
UploadStarted(store_id, menu_items) ==
    [Started("upload_ocr", NoId, [store_id |-> store_id, menu_items |-> menu_items])
        EXCEPT !.store_id = store_id]

\* the cursor.execute() calls of the loop of app.py:1036-1069 for the staged
\* items of the result
StagingStatements(menu_items) ==
    LET staged == SelectSeq(menu_items, Recognized)
        with_en == SelectSeq(staged, LAMBDA item : item.translated_name \notin {"", NULL})
    IN  Len(staged) * (2 + IdentityStatements) + Len(with_en)

\* POST /upload_ocr with form store_id and the recognition result menu_items
\* (app.py:977-1083), the answer kept on the request of worker p: UploadOcr with
\* its flash, its counters and the ids a failed run consumes
UploadOcrCall(p, store_id, menu_items) ==
    /\ Idle
    /\ ident.ocr_menus < MaxOcrMenus
    /\ ident.ocr_menu_items + RecognizedCount(menu_items) <= MaxOcrItems
    /\ LET r == UploadStarted(store_id, menu_items)
           opened == [r EXCEPT !.conn = "closed", !.connects = 1, !.closes = 1]
           store_row == StoresWithId(db, store_id)
           ocr_menu_id == ident.ocr_menus + 1
           inserted == [db EXCEPT !.ocr_menus =
                           Append(@, [ocr_menu_id |-> ocr_menu_id,
                                      store_name |-> store_row[1].store_name,
                                      store_id |-> store_id])]
           done == StageItems(inserted, [ident EXCEPT !.ocr_menus = ocr_menu_id],
                              ocr_menu_id, menu_items, 1)
       IN  IF "username" \notin session
           THEN /\ Serve(p, Answer(r, "error", MsgLoginRequired, "redirect_home"))
                /\ UNCHANGED <<db, ident, faults>>
           ELSE IF menu_items = <<>>
           THEN /\ Serve(p, Answer(r, "error", "recognition_failed", "redirect_upload_ocr"))
                /\ UNCHANGED <<db, ident, faults>>
           ELSE \/ ConnectFails(p, r)
                \/ /\ store_row = <<>>
                   /\ Succeeds
                   /\ UNCHANGED <<db, ident>>
                   /\ Serve(p, Answer([opened EXCEPT !.statements = 1],
                                      "error", "upload_store_not_found", "redirect_upload_ocr"))
                \/ /\ store_row # <<>>
                   /\ Succeeds
                   /\ db' = done.db
                   /\ ident' = done.ident
                   /\ Serve(p, [opened EXCEPT
                         !.statements = 2 + IdentityStatements + StagingStatements(menu_items),
                         !.commits = 1,
                         !.flashes = Append(@, Flash("success", MsgUploaded,
                                                     store_row[1].store_name, done.count, "")),
                         !.response = "redirect_admin_ocr", !.pc = "done"])
                \/ \* a statement or the commit raises after n items are staged
                   \* (n = -1: before the ocr_menus row is inserted)
                   /\ Raises
                   /\ db' = db
                   /\ \E n \in (-1)..Len(menu_items) :
                         /\ n >= 0 => store_row # <<>>
                         /\ ident' = IF n < 0 THEN ident
                                     ELSE StageItems(inserted,
                                                     [ident EXCEPT !.ocr_menus = ocr_menu_id],
                                                     ocr_menu_id, SubSeq(menu_items, 1, n), 1).ident
                   /\ LET f == [opened EXCEPT !.failed_at = "statement",
                                              !.log = Append(@, [level |-> "error",
                                                                 err |-> DbErrorText])]
                      IN  \/ Serve(p, [f EXCEPT
                                 !.rollbacks = 1,
                                 !.flashes = Append(@, Flash("error", "upload_failed", "", 0,
                                                             DbErrorText)),
                                 !.response = "redirect_upload_ocr", !.pc = "done"])
                          \/ Serve(p, [f EXCEPT !.log = <<>>, !.escaped = DbErrorText,
                                                !.response = "error_500", !.pc = "done"])
    /\ last' = IF db' = db THEN last ELSE NoLast
    /\ UNCHANGED <<DB_TYPE, session>>

\* ------------------------- login, logout, admin and the /api routes
\* The tables account, users, languages and store_user_link are not part of
\* db: a statement on them is counted on the request and changes no table.

\* POST /login (app.py:466-474): check_credentials (206-222) decides (ok),
\* with its one query on its own connection; Login with the answer kept on the
\* request of worker p
LoginCall(p, ok) ==
    /\ Idle
    /\ session' = IF ok THEN session \cup {"username"} ELSE session
    /\ LET r == [Started("login", NoId, [ok |-> ok])
                    EXCEPT !.connects = 1, !.statements = 1, !.conn = "closed", !.closes = 1]
       IN  IF ok THEN Serve(p, [r EXCEPT !.response = "redirect_admin", !.pc = "done"])
           ELSE Serve(p, Answer(r, "message", "bad_credentials", "redirect_home"))
    /\ UNCHANGED <<DB_TYPE, db, ident, last, faults>>

\* GET /logout (app.py:482-486): Logout with the answer kept
LogoutCall(p) ==
    /\ Idle
    /\ session' = session \ {"username"}
    /\ Serve(p, Answer(Started("logout", NoId, NoForm), "message", "logged_out",
                       "redirect_home"))
    /\ UNCHANGED <<DB_TYPE, db, ident, last, faults>>

\* GET /admin (app.py:476-480)
AdminPage(p) ==
    /\ Idle
    /\ LET r == Started("admin", NoId, NoForm)
       IN  IF "username" \in session
           THEN Serve(p, [r EXCEPT !.response = "render_admin", !.pc = "done"])
           ELSE Serve(p, Answer(r, "message", "admin_login_required", "redirect_home"))
    /\ UNCHANGED <<DB_TYPE, session, db, ident, last, faults>>

\* the handlers of the /api routes (app.py:260-459, 1155-1225)
ApiRoutes ==
    {"get_stores", "get_all_stores", "get_menu_items", "get_languages", "auto_translate",
     "get_ocr_store_names", "get_ocr_menu_items", "get_all_users", "get_store_user_links",
     "delete_store_user_link"}

\* a request to an /api route: 401 without a session, else the query on a
\* connection of its own and the JSON answer, or the 500 answer of the except
\* clause; three routes close the connection in a finally clause (app.py:1169,
\* 1194, 1225), the others at the end of the try block only
ApiCall(p, route) ==
    /\ Idle
    /\ LET r == Started(route, NoId, NoForm)
           queried == [r EXCEPT !.connects = 1, !.statements = 1]
           ClosesInFinally ==
               {"get_all_users", "get_store_user_links", "delete_store_user_link"}
       IN  IF "username" \notin session
           THEN /\ Serve(p, [r EXCEPT !.response = "401", !.pc = "done"])
                /\ UNCHANGED faults
           ELSE \/ /\ Succeeds
                   /\ Serve(p, [queried EXCEPT !.conn = "closed", !.closes = 1,
                                               !.response = "json", !.pc = "done"])
                \/ /\ Raises
                   /\ Serve(p, [queried EXCEPT
                         !.conn = IF route \in ClosesInFinally THEN "closed" ELSE "open",
                         !.closes = IF route \in ClosesInFinally THEN 1 ELSE 0,
                         !.failed_at = "statement",
                         !.log = Append(@, [level |-> "error", err |-> DbErrorText]),
                         !.response = "500", !.pc = "done"])
    /\ UNCHANGED <<DB_TYPE, session, db, ident, last>>

\* ------------------------------- add_ocr_menu_item, with its answer

\* the try block of add_ocr_menu_item (app.py:1357-1412); found is the
\* ocr_menu_id the first SELECT returned, NoId when it returned no row
AddOcrMenuItemStatements(store_name, form, found) ==
    LET store_row == StoresNamed(db, store_name)
        store_id == IF store_row = <<>> THEN NoId ELSE store_row[1].store_id
        ocr_menu_id == IF found = NoId THEN ident.ocr_menus + 1 ELSE found
        new_item_id == ident.ocr_menu_items + 1
    IN  <<Statement("select", "ocr_menus", NoId, <<>>)>>
        \o (IF found = NoId
            THEN <<Statement("select", "stores", NoId, <<>>),
                   Statement("insert", "ocr_menus", NoId,
                             [ocr_menu_id |-> ocr_menu_id, store_name |-> store_name,
                              store_id |-> store_id])>>
                 \o SelectIdentity
            ELSE <<>>)
        \o <<Statement("insert", "ocr_menu_items", NoId,
                       [ocr_menu_item_id |-> new_item_id, ocr_menu_id |-> ocr_menu_id,
                        item_name |-> form.item_name, price_big |-> OrNone(form.price_big),
                        price_small |-> form.price_small, translated_desc |-> NULL])>>
        \o SelectIdentity
        \o InsertTranslations("ocr_menu_translations", new_item_id, form)

\* POST /add_ocr_menu_item (app.py:1333-1424), the answer kept on the request
\* of worker p: AddOcrMenuItem with its flash and its connection
AddOcrMenuItemCall(p, store_name, form) ==
    /\ Idle
    /\ OcrMenuIdsOf(db, store_name) # {} \/ ident.ocr_menus < MaxOcrMenus
    /\ ident.ocr_menu_items < MaxOcrItems
    /\ LET r == [Started("add_ocr_menu_item", NoId, form) EXCEPT !.ocr_store_name = store_name]
           rows == SelectSeq(db.ocr_menus, LAMBDA m : m.store_name = store_name)
           found == IF rows = <<>> THEN NoId ELSE rows[1].ocr_menu_id
           stmts == AddOcrMenuItemStatements(store_name, form, found)
       IN  IF "username" \notin session THEN NotLoggedIn(p, r)
           ELSE \/ ConnectFails(p, r)
                \/ IF store_name = "" \/ form.item_name = "" \/ form.price_small = ""
                   THEN LeavesOpen(p, r, "error", "ocr_fields_required",
                                   "redirect_add_ocr_menu_item")
                   ELSE \/ Commits(p, r, stmts, "success", "ocr_item_added",
                                   "redirect_admin_ocr")
                        \/ Fails(p, r, stmts, "error", "ocr_item_add_failed",
                                 "redirect_add_ocr_menu_item")
    /\ last' = IF db' = db THEN last ELSE NoLast
    /\ UNCHANGED <<DB_TYPE, session>>

\* ----------------------------------------------------- add_store_user_link

\* request.form of add_store_user_link
LinkForms == { [store_id |-> "1", user_id |-> "7"], [store_id |-> "1", user_id |-> ""] }

\* POST /add_store_user_link (app.py:1100-1136)
AddStoreUserLink(p, form) ==
    /\ Idle
    /\ LET r == Started("add_store_user_link", NoId, form)
           stmts == <<Statement("execute", "store_user_link", NoId, form)>>
       IN  IF "username" \notin session THEN NotLoggedIn(p, r)
           ELSE \/ ConnectFails(p, r)
                \/ IF form.store_id = "" \/ form.user_id = ""
                   THEN LeavesOpen(p, r, "error", "link_fields_required",
                                   "redirect_add_store_user_link")
                   ELSE \/ Commits(p, r, stmts, "success", "linked", "redirect_admin_binding")
                        \/ Fails(p, r, stmts, "error", "link_failed",
                                 "redirect_add_store_user_link")
    /\ last' = IF db' = db THEN last ELSE NoLast
    /\ UNCHANGED <<DB_TYPE, session>>

\* ------------------------------------------------- GET /api/stores
per_page == 10                                      \* app.py:266

\* app.py:267
offset(page) == (page - 1) * per_page

\* params after the WHERE clauses are built (app.py:268-275); the partner_level
\* column is left out
where_params(search_name) == IF search_name # "" THEN <<search_name>> ELSE <<>>

\* the rows the WHERE clause selects: store_name LIKE %search_name%, which on
\* the one-letter names of StoreNames is equality
Matching(stores, search_name) ==
    IF search_name = "" THEN stores
    ELSE SelectSeq(stores, LAMBDA r : r.store_name = search_name)

\* the placeholders of pagination_sql in the order they stand in the text
\* (app.py:286-291)
pagination_sql(dialect) ==
    IF dialect = "MYSQL" THEN <<"LIMIT", "OFFSET">> ELSE <<"OFFSET", "FETCH">>

\* final_params with the MYSQL order under both dialects
final_paramsLimitFirst(dialect, params, page) ==
    params \o <<per_page, offset(page)>>

\* app.py:288, 291
final_params(dialect, params, page) ==
    IF dialect = "MYSQL"
    THEN params \o <<per_page, offset(page)>>
    ELSE params \o <<offset(page), per_page>>

\* ORDER BY store_id DESC of a table kept in store_id order
OrderByIdDesc(rows) == [k \in 1..Len(rows) |-> rows[Len(rows) + 1 - k]]

\* the rows the data query returns: the placeholders are bound by position, the
\* value at OFFSET is the number of rows skipped and the value at LIMIT or FETCH
\* the most rows returned
DataQuery(stores, search_name, dialect, bound) ==
    LET rows == OrderByIdDesc(Matching(stores, search_name))
        clauses == pagination_sql(dialect)
        first == Len(where_params(search_name))
        ValueAt(names) == bound[first + (CHOOSE k \in 1..Len(clauses) : clauses[k] \in names)]
        skip == ValueAt({"OFFSET"})
        take == ValueAt({"LIMIT", "FETCH"})
        to == IF skip + take < Len(rows) THEN skip + take ELSE Len(rows)
    IN  SubSeq(rows, skip + 1, to)

\* app.py:300
total_pages(total_stores) == (total_stores + per_page - 1) \div per_page

\* the JSON body of app.py:301-304, with the parameters the data query was run
\* with
StoresJson(stores, dialect, page, search_name) ==
    LET total_stores == Len(Matching(stores, search_name))
        bound == final_params(dialect, where_params(search_name), page)
    IN  [stores |-> DataQuery(stores, search_name, dialect, bound),
         pagination |-> [current_page |-> page,
                         total_pages |-> total_pages(total_stores),
                         has_prev |-> page > 1,
                         has_next |-> page < total_pages(total_stores)],
         final_params |-> bound]

\* GET /api/stores?page=&name= (app.py:260-307): ApiCall of get_stores with
\* its body
GetStores(p, page, search_name) ==
    /\ Idle
    /\ LET r == Started("get_stores", NoId, [page |-> page, name |-> search_name])
           queried == [r EXCEPT !.connects = 1]
       IN  IF "username" \notin session
           THEN /\ Serve(p, [r EXCEPT !.response = "401", !.pc = "done"])
                /\ UNCHANGED faults
           ELSE \/ /\ Succeeds
                   /\ Serve(p, [queried EXCEPT
                         !.statements = 2, !.conn = "closed", !.closes = 1,
                         !.json = StoresJson(db.stores, DB_TYPE, page, search_name),
                         !.response = "json", !.pc = "done"])
                \/ /\ Raises
                   /\ Serve(p, [queried EXCEPT
                         !.conn = "open", !.failed_at = "statement",
                         !.log = Append(@, [level |-> "error", err |-> DbErrorText]),
                         !.response = "500", !.pc = "done"])
    /\ UNCHANGED <<DB_TYPE, session, db, ident, last>>

\* the server starts on a stores table of any size up to MaxTotal, the stores
\* named A and B in turn
InitPages ==
    /\ DB_TYPE \in DbTypes
    /\ session = {}
    /\ \E total \in 0..MaxTotal :
          /\ db = [EmptyDb EXCEPT !.stores =
                      [k \in 1..total |->
                          [store_id |-> k,
                           store_name |-> IF k % 2 = 1 THEN "A" ELSE "B"]]]
          /\ ident = [NoIdent EXCEPT !.stores = total]
    /\ req = [p \in Procs |-> IdleReq]
    /\ last = NoLast
    /\ faults = 0

\* the pages of the stores list are fetched, one request at a time
NextPages ==
    \/ \E p \in Sequential : LoginCall(p, TRUE)
    \/ \E p \in Sequential : LogoutCall(p)
    \/ \E p \in Sequential, page \in 1..MaxPage, search_name \in {"", "A"} :
          GetStores(p, page, search_name)
    \/ \E p \in Procs : Return(p)

SpecPages == InitPages /\ [][NextPages]_vars

\* ------------------------------------------------- further specifications
\* the forms of the runs of every handler
FormTwice == CHOOSE f \in MenuItemForms : f.lang_codes = <<"en", "en">>
FormOcrEdit == CHOOSE f \in OcrEditForms : f.item_name # ""
FormOcrAdd == CHOOSE f \in OcrItemForms : f.price_small # ""

\* every handler that writes items, one request at a time, each with one form
NextAll ==
    \/ Login(TRUE)
    \/ Logout
    \/ UploadOcr(1, <<ItemFull, ItemNoPrice>>)
    \/ AddOcrMenuItem("A", FormOcrAdd)
    \/ \E p \in Sequential, name \in StoreNames : ImportBegin(p, name)
    \/ \E p \in Procs : ImportStep(p)
    \/ \E p \in Sequential : AddMenuItem(p, 1, FormTwice)
    \/ \E p \in Sequential : EditMenuItem(p, 1, FormTwice)
    \/ \E p \in Sequential : EditOcrMenuItem(p, 1, FormOcrEdit)

SpecAll == Init /\ [][NextAll]_vars

\* the tables after upload_ocr for store 1 with the items ItemFull and
\* ItemNoPrice and add_menu_item for store 1 with the first of MenuItemForms
EditTables ==
    LET form == CHOOSE f \in MenuItemForms : f.item_name = "m1"
        staged == StageItems([EmptyDb EXCEPT
                                 !.stores = InitStores,
                                 !.ocr_menus = <<[ocr_menu_id |-> 1, store_name |-> "A",
                                                  store_id |-> 1]>>],
                             [InitIdent EXCEPT !.ocr_menus = 1],
                             1, <<ItemFull, ItemNoPrice>>, 1)
    IN  [db |-> [staged.db EXCEPT
                    !.menus = <<MenuRow(1, 1)>>,
                    !.menu_items = <<[menu_item_id |-> 1, menu_id |-> 1,
                                      item_name |-> form.item_name,
                                      price_big |-> OrNone(form.price_big),
                                      price_small |-> form.price_small]>>,
                    !.menu_translations =
                        ZipFilled(1, form.lang_codes, form.descriptions, 1)],
         ident |-> [staged.ident EXCEPT !.menus = 1, !.menu_items = 1]]

\* the start of the runs of the edit handlers: one production item and one
\* staged item, each with translations
InitEdit ==
    /\ DB_TYPE \in DbTypes
    /\ session = {}
    /\ db = EditTables.db
    /\ ident = EditTables.ident
    /\ req = [p \in Procs |-> IdleReq]
    /\ last = NoLast
    /\ faults = 0

\* the start of the runs of two workers: a user is logged in, store A has a
\* menu with one item and one staged item
InitRace ==
    /\ DB_TYPE \in DbTypes
    /\ session = {"username"}
    /\ db = EditTables.db
    /\ ident = EditTables.ident
    /\ req = [p \in Procs |-> IdleReq]
    /\ last = NoLast
    /\ faults = 0

\* two workers of the threaded server (app.run, app.py:1448-1449) serve
\* import_ocr_menu requests at the same time
NextRace ==
    \/ \E p \in Procs : ImportEnter(p, "A")
    \/ \E p \in Procs : ImportStep(p)

SpecRace == InitRace /\ [][NextRace]_vars

\* the handlers that write the menus of a store that has a menu and a staged
\* item, one request at a time
NextMenus ==
    \/ Login(TRUE)
    \/ Logout
    \/ \E p \in Sequential, id \in StoreIds, form \in MenuItemForms : AddMenuItem(p, id, form)
    \/ \E p \in Sequential : EditMenuItem(p, 1, FormTwice)
    \/ \E p \in Sequential : ImportBegin(p, "A")
    \/ \E p \in Procs : ImportStep(p)

SpecMenus == InitRace /\ [][NextMenus]_vars

\* the start of the runs that put one call to both dialects
InitDialects ==
    /\ DB_TYPE = "MYSQL"
    /\ session = {}
    /\ db = [EmptyDb EXCEPT !.stores = InitStores]
    /\ ident = InitIdent
    /\ req = [p \in Procs |-> IdleReq]
    /\ last = NoLast
    /\ faults = 0

\* the call that worker p has answered with DB_TYPE = MYSQL is put again, to
\* the same tables and counters, with DB_TYPE = SQL_SERVER (app.py:16); the
\* slot of worker q keeps the first answer and the tables it left
OtherDialect(p, q) ==
    /\ DB_TYPE = "MYSQL"
    /\ req[p].pc = "done"
    /\ req[p].handler = "import_ocr_menu"
    /\ req[q].pc = "idle"
    /\ DB_TYPE' = "SQL_SERVER"
    /\ db' = req[p].pre
    /\ ident' = req[p].pre_ident
    /\ req' = [req EXCEPT ![p] = IdleReq, ![q] = [req[p] EXCEPT !.pc = "kept", !.post = db]]
    /\ last' = NoLast
    /\ UNCHANGED <<session, faults>>

\* the same form is posted to the tables of the first call
SecondEnter(p, q) ==
    /\ DB_TYPE = "SQL_SERVER"
    /\ req[q].pc = "kept"
    /\ db = req[q].pre
    /\ ident = req[q].pre_ident
    /\ ImportEnter(p, req[q].ocr_store_name)

\* the comparison is over: the server runs with DB_TYPE = MYSQL again
BackToFirst(p, q) ==
    /\ req[q].pc = "kept"
    /\ req[p].pc = "idle"
    /\ DB_TYPE' = "MYSQL"
    /\ req' = [req EXCEPT ![q] = IdleReq]
    /\ last' = NoLast
    /\ UNCHANGED <<session, db, ident, faults>>

\* import_ocr_menu under both dialects on the same tables
NextDialects ==
    \/ \E ok \in BOOLEAN : Login(ok)
    \/ Logout
    \/ \E id \in UploadStoreIds, items \in OcrResults : UploadOcr(id, items)
    \/ \E name \in StoreNames, form \in OcrItemForms : AddOcrMenuItem(name, form)
    \/ \E name \in FormStoreNames : ImportBegin("w1", name)
    \/ ImportStep("w1")
    \/ OtherDialect("w1", "w2")
    \/ SecondEnter("w1", "w2")
    \/ BackToFirst("w1", "w2")

SpecDialects == InitDialects /\ [][NextDialects]_vars

\* the import that worker p has answered with success is over; the slot of
\* worker q keeps its record and the tables it left
KeepFirst(p, q) ==
    /\ req[p].pc = "done"
    /\ req[p].handler = "import_ocr_menu"
    /\ \E k \in 1..Len(req[p].flashes) : req[p].flashes[k].msg = MsgImported
    /\ req[q].pc = "idle"
    /\ req' = [req EXCEPT ![p] = IdleReq, ![q] = [req[p] EXCEPT !.pc = "kept", !.post = db]]
    /\ last' = NoLast
    /\ UNCHANGED <<DB_TYPE, session, db, ident, faults>>

\* the same form is posted again while the tables are as the first call left
\* them
RepeatEnter(p, q) ==
    /\ req[q].pc = "kept"
    /\ db = req[q].post
    /\ ImportEnter(p, req[q].ocr_store_name)

\* the record of the first call is dropped
Forget(p, q) ==
    /\ req[q].pc = "kept"
    /\ req[p].pc = "idle"
    /\ req' = [req EXCEPT ![q] = IdleReq]
    /\ UNCHANGED <<DB_TYPE, session, db, ident, last, faults>>

\* uploads for store A and imports of A, each import that succeeded followed by
\* the same call again
NextRepeat ==
    \/ Login(TRUE)
    \/ Logout
    \/ \E items \in OcrResults : UploadOcr(1, items)
    \/ ImportBegin("w1", "A")
    \/ ImportStep("w1")
    \/ KeepFirst("w1", "w2")
    \/ RepeatEnter("w1", "w2")
    \/ Forget("w1", "w2")

SpecRepeat == Init /\ [][NextRepeat]_vars

\* stores are added and renamed, menus are uploaded and imported, one request
\* at a time
NextStores ==
    \/ Login(TRUE)
    \/ Logout
    \/ \E p \in Sequential, form \in StoreForms : AddStore(p, form)
    \/ \E p \in Sequential, id \in StoreIds, form \in StoreForms : EditStore(p, id, form)
    \/ \E id \in UploadStoreIds : UploadOcr(id, <<ItemFull, ItemNoPrice>>)
    \/ \E p \in Sequential, name \in StoreNames : ImportBegin(p, name)
    \/ \E p \in Procs : ImportStep(p)

SpecStores == Init /\ [][NextStores]_vars

\* recognition results are uploaded, one request at a time
NextUpload ==
    \/ Login(TRUE)
    \/ Logout
    \/ \E p \in Sequential, id \in UploadStoreIds, items \in OcrResults :
          UploadOcrCall(p, id, items)
    \/ \E p \in Procs : Return(p)

SpecUpload == Init /\ [][NextUpload]_vars

\* the forms of the runs of every route
FormStore == CHOOSE f \in StoreForms : f.store_name = "B"
FormNoPrice == CHOOSE f \in MenuItemForms : f.price_small = ""

\* every route of the application, one request at a time, on the tables of
\* InitEdit; the routes that add rows are posted with a missing field or an
\* empty recognition result here (their complete forms are the runs of
\* SpecStores, SpecMenus, SpecUpload and SpecClose)
NextRoutes ==
    \/ \E p \in Sequential, ok \in BOOLEAN : LoginCall(p, ok)
    \/ \E p \in Sequential : LogoutCall(p)
    \/ \E p \in Sequential : AdminPage(p)
    \/ \E p \in Sequential, route \in ApiRoutes : ApiCall(p, route)
    \/ \E p \in Sequential : AddStore(p, [store_name |-> ""])
    \/ \E p \in Sequential, form \in {FormStore, [store_name |-> ""]} : EditStore(p, 1, form)
    \/ \E p \in Sequential : AddMenuItem(p, 1, FormNoPrice)
    \/ \E p \in Sequential, form \in {FormTwice, FormNoPrice} : EditMenuItem(p, 1, form)
    \/ \E p \in Sequential, form \in OcrEditForms : EditOcrMenuItem(p, 1, form)
    \/ \E p \in Sequential, form \in {f \in OcrItemForms : f.price_small = ""} :
          AddOcrMenuItemCall(p, "A", form)
    \/ \E p \in Sequential, form \in LinkForms : AddStoreUserLink(p, form)
    \/ \E p \in Sequential : UploadOcrCall(p, 1, <<>>)
    \/ \E p \in Sequential : ImportBegin(p, "A")
    \/ \E p \in Procs : ImportStep(p)

SpecRoutes == InitEdit /\ [][NextRoutes]_vars

\* the handlers that return from several places after get_db_connection(),
\* one request at a time, with complete and incomplete forms
NextClose ==
    \/ Login(TRUE)
    \/ Logout
    \/ \E p \in Sequential, form \in {FormStore, [store_name |-> ""], [store_name |-> LongName]} :
          EditStore(p, 1, form)
    \/ \E p \in Sequential, form \in {FormTwice, FormNoPrice} : AddMenuItem(p, 1, form)
    \/ \E p \in Sequential, form \in {FormTwice, FormNoPrice} : EditMenuItem(p, 1, form)
    \/ \E p \in Sequential, form \in OcrEditForms : EditOcrMenuItem(p, 1, form)
    \/ \E p \in Sequential, form \in OcrItemForms : AddOcrMenuItemCall(p, "A", form)
    \/ \E p \in Sequential, form \in LinkForms : AddStoreUserLink(p, form)
    \/ \E p \in Procs : Return(p)

SpecClose == InitEdit /\ [][NextClose]_vars

\* the two edit handlers, one request at a time
NextEdit ==
    \/ \E ok \in BOOLEAN : Login(ok)
    \/ Logout
    \/ \E p \in Sequential, id \in ItemIds, form \in MenuItemForms : EditMenuItem(p, id, form)
    \/ \E p \in Sequential, id \in ItemIds, form \in OcrEditForms : EditOcrMenuItem(p, id, form)
    \/ \E p \in Procs : Return(p)

SpecEdit == InitEdit /\ [][NextEdit]_vars

\* ======================================================================
\* Properties of import_ocr_menu
\* ======================================================================

\* the request of worker p has been answered
Answered(p) == req[p].pc = "done"

\* the request flashed message msg
Flashed(r, msg) == \E k \in 1..Len(r.flashes) : r.flashes[k].msg = msg

\* the steps of the handler that come after the store has been resolved
AfterStoreResolved ==
    {"insert_menu", "select_items", "insert_item", "select_translations",
     "insert_translation", "delete_translations", "delete_items", "delete_menus", "commit"}

\* the (lang_code, description) pairs of the rows of table that reference item id
PairsOf(table, id) ==
    LET rows == SelectSeq(table, LAMBDA t : t.menu_item_id = id)
    IN  [k \in 1..Len(rows) |-> <<rows[k].lang_code, rows[k].description>>]

\* number of positions of s holding x
Count(s, x) == Cardinality({i \in 1..Len(s) : s[i] = x})

\* s and t hold the same elements the same number of times
SameMultiset(s, t) ==
    /\ Len(s) = Len(t)
    /\ \A x \in Range(s) \cup Range(t) : Count(s, x) = Count(t, x)

\* the menu_items rows of menu menu_id
ItemsOfMenu(d, menu_id) == SelectSeq(d.menu_items, LAMBDA r : r.menu_id = menu_id)

\* the rows `new` of menu_items are copies, one for one, of the staged rows
\* `old` of the tables before, translations included
CopiesOf(before, after, old, new) ==
    /\ Len(new) = Len(old)
    /\ \E f \in [1..Len(new) -> 1..Len(old)] :
          /\ \A a, b \in 1..Len(new) : f[a] = f[b] => a = b
          /\ \A k \in 1..Len(new) :
                /\ new[k].item_name = old[f[k]].item_name
                /\ new[k].price_big = old[f[k]].price_big
                /\ new[k].price_small = old[f[k]].price_small
                /\ SameMultiset(PairsOf(after.menu_translations, new[k].menu_item_id),
                                PairsOf(before.ocr_menu_translations,
                                        old[f[k]].ocr_menu_item_id))

\* C1: whenever a statement of import_ocr_menu (or the commit) raises after the
\* store has been resolved, the committed tables are those of before the call:
\* nothing the call inserted exists and every staging row is still there.
C1_Atomicity ==
    \A p \in Procs :
        req[p].failed_at \in AfterStoreResolved => db = req[p].pre

\* C1 witness: a call with staged items whose commit raised has been answered
\* and the tables are those of before the call
C1_Witness ==
    \E p \in Procs :
        /\ Answered(p)
        /\ req[p].failed_at = "commit"
        /\ Len(req[p].ocr_items) >= 1
        /\ req[p].rollbacks = 1
        /\ db = req[p].pre

\* C2: after a call that commits, for a store name with N >= 1 staged items,
\* the new menu holds exactly N items, each the copy of one distinct staged item
\* (name, both prices, and the multiset of its translations), and the count
\* reported is N.
C2_Completeness ==
    \A p \in Procs :
        (Answered(p) /\ Flashed(req[p], MsgImported)) =>
            LET r == req[p]
                old == OcrItemsOf(r.pre, r.ocr_store_name)
                new == ItemsOfMenu(db, r.menu_id)
            IN  /\ Len(old) >= 1
                /\ CopiesOf(r.pre, db, old, new)
                /\ r.flashes = <<Flash("success", MsgImported, r.ocr_store_name, Len(old), "")>>

\* C2 witness: an import of two staged items, one of which has two translations
\* of the same language, has committed
C2_Witness ==
    \E p \in Procs :
        /\ Answered(p)
        /\ Flashed(req[p], MsgImported)
        /\ Len(OcrItemsOf(req[p].pre, req[p].ocr_store_name)) = 2
        /\ \E k \in 1..Len(db.menu_items) :
              LET pairs == PairsOf(db.menu_translations, db.menu_items[k].menu_item_id)
              IN  Len(pairs) = 2 /\ pairs[1][1] = pairs[2][1]

\* the request reported success to its caller
ReportsSuccess(r) ==
    /\ r.escaped = ""
    /\ \/ Flashed(r, MsgImported)
       \/ Flashed(r, MsgNothingToImport)

\* the staging tables of d hold nothing for store name
NothingStaged(d, name) ==
    /\ \A m \in Range(d.ocr_menus) : m.store_name # name
    /\ \A x \in Range(d.ocr_menu_items) : x.ocr_menu_id \notin OcrMenuIdsOf(d, name)
    /\ \A t \in Range(d.ocr_menu_translations) :
          t.menu_item_id \notin StagedItemIds(d, name)

\* C3: after a call that reports success for store name S, with items imported
\* or with none, no ocr_menus row of S, no item of such a row and no translation
\* of such an item is left.
C3_Cleanup ==
    \A p \in Procs :
        (Answered(p) /\ ReportsSuccess(req[p])) => NothingStaged(db, req[p].ocr_store_name)

\* the caller is logged in and names a store that stores does not hold
CallsUnknownStore(r) ==
    /\ "username" \in session
    /\ r.ocr_store_name # ""
    /\ StoresNamed(r.pre, r.ocr_store_name) = <<>>

\* C4: a call by a logged in user with a non-empty store name that matches no
\* stores row is answered with the not-found failure, and no production and no
\* staging table has changed.
C4_NotFound ==
    \A p \in Procs :
        (Answered(p) /\ CallsUnknownStore(req[p]) /\ req[p].failed_at = "") =>
            /\ req[p].flashes =
                  <<Flash("error", MsgStoreNotFound, req[p].ocr_store_name, 0, "")>>
            /\ req[p].response = "redirect_admin_ocr"
            /\ req[p].escaped = ""
            /\ db = req[p].pre

\* the caller is logged in and names an existing store with nothing staged, and
\* no statement of the call raised
CallsStoreWithNothingStaged(r) ==
    /\ "username" \in session
    /\ r.ocr_store_name # ""
    /\ StoresNamed(r.pre, r.ocr_store_name) # <<>>
    /\ OcrItemsOf(r.pre, r.ocr_store_name) = <<>>
    /\ r.failed_at = ""

\* the menus rows of the store
MenusOfStore(d, store_id) == SelectSeq(d.menus, LAMBDA m : m.store_id = store_id)

ImportedFrom(before, after, name, store_id) ==
    LET n == Len(before.menus)
        added == SubSeq(after.menu_items, Len(before.menu_items) + 1, Len(after.menu_items))
    IN  /\ after.stores = before.stores
        /\ Len(after.menus) = n + 1
        /\ SubSeq(after.menus, 1, n) = before.menus
        /\ after.menus[n + 1].store_id = store_id
        /\ after.menus[n + 1].version = 1
        /\ SubSeq(after.menu_items, 1, Len(before.menu_items)) = before.menu_items
        /\ \A k \in 1..Len(added) : added[k].menu_id = after.menus[n + 1].menu_id
        /\ CopiesOf(before, after, OcrItemsOf(before, name), added)
        /\ SubSeq(after.menu_translations, 1, Len(before.menu_translations))
              = before.menu_translations
        /\ \A k \in (Len(before.menu_translations) + 1)..Len(after.menu_translations) :
              \E a \in 1..Len(added) :
                  after.menu_translations[k].menu_item_id = added[a].menu_item_id
        /\ after.ocr_menus = SelectSeq(before.ocr_menus, LAMBDA m : m.store_name # name)
        /\ after.ocr_menu_items =
              SelectSeq(before.ocr_menu_items,
                        LAMBDA x : x.ocr_menu_id \notin OcrMenuIdsOf(before, name))
        /\ after.ocr_menu_translations =
              SelectSeq(before.ocr_menu_translations,
                        LAMBDA t : t.menu_item_id \notin StagedItemIds(before, name))

\* C6: when a call that failed with a storage error is repeated and the repeat
\* commits, the tables are what one successful call on the tables of before the
\* failed call leaves (generated keys apart): one new menu, one copy of every
\* staged item and translation, the store's staging rows gone.
C6_RetryAfterFailure ==
    \A p \in Procs :
        (Answered(p) /\ req[p].retried /\ Flashed(req[p], MsgImported)) =>
            ImportedFrom(req[p].first_pre, db, req[p].ocr_store_name, req[p].store_id)

\* C6 witness: the repeat of a call that failed after inserting rows has
\* committed, with keys that differ from those the failed call drew
C6_Witness ==
    \E p \in Procs :
        /\ Answered(p)
        /\ req[p].retried
        /\ Flashed(req[p], MsgImported)
        /\ req[p].menu_id > Len(db.menus)
        /\ Len(OcrItemsOf(req[p].first_pre, req[p].ocr_store_name)) >= 1

\* C7: when the transactional body fails, the message flashed to the caller
\* does not hold the text of the database error, which is in the log only.
C7_GenericMessage ==
    \A p \in Procs :
        Flashed(req[p], MsgImportFailed) =>
            /\ \A k \in 1..Len(req[p].flashes) : req[p].flashes[k].err = ""
            /\ \E k \in 1..Len(req[p].log) : req[p].log[k].err = DbErrorText

\* C8: no database exception leaves the handler: every call, a failed connect
\* included, is answered with one of the reported outcomes.
C8_NoExceptionEscapes ==
    \A p \in Procs :
        Answered(p) => /\ req[p].escaped = ""
                       /\ req[p].response # "error_500"
                       /\ req[p].flashes # <<>>

\* C9: a call without 'username' in the session is answered with the
\* unauthorized outcome, opens no connection and executes no statement.
C9_Unauthorized ==
    \A p \in Procs :
        (req[p].pc # "idle" /\ "username" \notin session) =>
            /\ Answered(p)
            /\ req[p].flashes = <<Flash("error", MsgLoginRequired, "", 0, "")>>
            /\ req[p].response = "redirect_home"
            /\ req[p].conn = "none"
            /\ req[p].connects = 0
            /\ req[p].statements = 0
            /\ db = req[p].pre

\* C9 witness: a call without a session, for a store with staged items, has
\* been answered
C9_Witness ==
    \E p \in Procs :
        /\ Answered(p)
        /\ "username" \notin session
        /\ req[p].ocr_store_name # ""
        /\ OcrItemsOf(db, req[p].ocr_store_name) # <<>>

\* C10: a call by a logged in user with a missing or empty store name is
\* answered with the validation failure before a connection is opened, and no
\* table changes.
C10_Validation ==
    \A p \in Procs :
        (req[p].pc # "idle" /\ "username" \in session /\ req[p].ocr_store_name = "") =>
            /\ Answered(p)
            /\ req[p].flashes = <<Flash("error", MsgNameMissing, "", 0, "")>>
            /\ req[p].response = "redirect_admin_ocr"
            /\ req[p].conn = "none"
            /\ req[p].connects = 0
            /\ req[p].statements = 0
            /\ req[p].tx = EmptyTx
            /\ db = req[p].pre

\* C10 witness: a logged in call with an empty store name has been answered
\* while staging rows exist
C10_Witness ==
    \E p \in Procs :
        /\ Answered(p)
        /\ "username" \in session
        /\ req[p].ocr_store_name = ""
        /\ db.ocr_menu_items # <<>>

\* C11: every call that acquired a connection has, when it is answered,
\* explicitly committed or explicitly rolled back its transaction and closed
\* the connection.
C11_CommittedOrRolledBack ==
    \A p \in Procs :
        (Answered(p) /\ req[p].connects = 1) =>
            /\ req[p].commits + req[p].rollbacks >= 1
            /\ req[p].conn = "closed"

\* C13: the menus row a call has inserted carries version 1 and the store_id of
\* the first stores row whose store_name equals the name of the call, whatever
\* menus that store had before.
C13_VersionOneOfResolvedStore ==
    \A p \in Procs :
        req[p].menu_id # NoId =>
            \A m \in Range(View(db, req[p].tx).menus) :
                m.menu_id = req[p].menu_id =>
                    /\ m.version = 1
                    /\ StoresNamed(req[p].pre, req[p].ocr_store_name) # <<>>
                    /\ m.store_id =
                          StoresNamed(req[p].pre, req[p].ocr_store_name)[1].store_id

\* C13 witness: an import has committed its menus row for a store that already
\* had a menu
C13_Witness ==
    \E p \in Procs :
        /\ Answered(p)
        /\ Flashed(req[p], MsgImported)
        /\ MenusOfStore(req[p].pre, req[p].store_id) # <<>>
        /\ \E m \in Range(db.menus) : m.menu_id = req[p].menu_id

\* the rows of `after` beyond those of `before`
AddedRows(before, after) == SubSeq(after, Len(before) + 1, Len(after))

\* C15: after a call for store name S that reports success, every stores row
\* and every menus, menu_items and menu_translations row of before the call is
\* as it was, the rows added are one menus row and items and translations
\* under it, and the staging rows of the other store names are as they were
\* while no staging row has been added.
C15_Frame ==
    \A p \in Procs :
        (Answered(p) /\ ReportsSuccess(req[p])) =>
            LET r == req[p]
                mine == {m.ocr_menu_id : m \in {x \in Range(r.pre.ocr_menus) :
                                                   x.store_name = r.ocr_store_name}}
                items == {x.ocr_menu_item_id : x \in {y \in Range(r.pre.ocr_menu_items) :
                                                         y.ocr_menu_id \in mine}}
                new_items == AddedRows(r.pre.menu_items, db.menu_items)
            IN  /\ db.stores = r.pre.stores
                /\ Len(db.menus) >= Len(r.pre.menus)
                /\ SubSeq(db.menus, 1, Len(r.pre.menus)) = r.pre.menus
                /\ \A m \in Range(AddedRows(r.pre.menus, db.menus)) : m.menu_id = r.menu_id
                /\ Len(AddedRows(r.pre.menus, db.menus)) <= 1
                /\ Len(db.menu_items) >= Len(r.pre.menu_items)
                /\ SubSeq(db.menu_items, 1, Len(r.pre.menu_items)) = r.pre.menu_items
                /\ \A x \in Range(new_items) : x.menu_id = r.menu_id
                /\ Len(db.menu_translations) >= Len(r.pre.menu_translations)
                /\ SubSeq(db.menu_translations, 1, Len(r.pre.menu_translations))
                      = r.pre.menu_translations
                /\ \A t \in Range(AddedRows(r.pre.menu_translations, db.menu_translations)) :
                      \E x \in Range(new_items) : x.menu_item_id = t.menu_item_id
                /\ SelectSeq(db.ocr_menus, LAMBDA m : m.store_name # r.ocr_store_name)
                      = SelectSeq(r.pre.ocr_menus, LAMBDA m : m.store_name # r.ocr_store_name)
                /\ SelectSeq(db.ocr_menu_items, LAMBDA x : x.ocr_menu_id \notin mine)
                      = SelectSeq(r.pre.ocr_menu_items, LAMBDA x : x.ocr_menu_id \notin mine)
                /\ SelectSeq(db.ocr_menu_translations, LAMBDA t : t.menu_item_id \notin items)
                      = SelectSeq(r.pre.ocr_menu_translations,
                                  LAMBDA t : t.menu_item_id \notin items)
                /\ Range(db.ocr_menus) \subseteq Range(r.pre.ocr_menus)
                /\ Range(db.ocr_menu_items) \subseteq Range(r.pre.ocr_menu_items)
                /\ Range(db.ocr_menu_translations) \subseteq Range(r.pre.ocr_menu_translations)

\* C15 witness: an import of store A has committed while staged rows of another
\* store name (with a translation) are in the tables
C15_Witness ==
    \E p \in Procs :
        /\ Answered(p)
        /\ Flashed(req[p], MsgImported)
        /\ \E m \in Range(db.ocr_menus) :
              /\ m.store_name # req[p].ocr_store_name
              /\ \E x \in Range(db.ocr_menu_items) :
                    /\ x.ocr_menu_id = m.ocr_menu_id
                    /\ \E t \in Range(db.ocr_menu_translations) :
                          t.menu_item_id = x.ocr_menu_item_id

\* the connection of request r has executed a staging delete
Deleting(r) ==
    \/ r.tx.del_ocr_menu_translations # {}
    \/ r.tx.del_ocr_menu_items # {}
    \/ r.tx.del_ocr_menus # {}

\* every staged item in d references a staged menu in d, and every staged
\* translation in d a staged item in d
NoDanglingStaging(d) ==
    /\ \A x \in Range(d.ocr_menu_items) :
          \E m \in Range(d.ocr_menus) : m.ocr_menu_id = x.ocr_menu_id
    /\ \A t \in Range(d.ocr_menu_translations) :
          \E x \in Range(d.ocr_menu_items) : x.ocr_menu_item_id = t.menu_item_id

\* C17, at every step: once the connection has deleted a staging row, every
\* staged item the call fetched and every translation of it has been inserted;
\* and what the connection sees never holds a staged row whose parent row is
\* deleted.
C17_CopiedBeforeDeleted ==
    \A p \in Procs :
        LET r == req[p]
            v == View(db, r.tx)
        IN  /\ Deleting(r) =>
                  /\ r.imported_count = Len(r.ocr_items)
                  /\ CopiesOf(r.pre, v, r.ocr_items, ItemsOfMenu(v, r.menu_id))
            /\ r.conn = "open" => NoDanglingStaging(v)

\* C17, at the commit: the connection that commits sees no staging row of the
\* store name any more, translations, items and ocr_menus rows all deleted
C17_CommitAfterLastDelete ==
    \A p \in Procs :
        req'[p].commits > req[p].commits =>
            /\ req[p].tx.del_ocr_menu_translations # {}
            /\ req[p].tx.del_ocr_menu_items # {}
            /\ req[p].tx.del_ocr_menus # {}
            /\ NothingStaged(View(db, req[p].tx), req[p].ocr_store_name)

\* C17: inside an import no staging row is deleted before every staged item and
\* translation is inserted, the deletes go translations, items, ocr_menus so
\* that no remaining row references a deleted parent, and the commit comes only
\* after the last delete.
C17_DeleteOrder == [](C17_CopiedBeforeDeleted) /\ [][C17_CommitAfterLastDelete]_vars

\* C17 witness: a call that copied two items, one with two translations, has
\* deleted the translations and the items and is about to delete the ocr_menus
\* rows
C17_Witness ==
    \E p \in Procs :
        /\ req[p].pc = "delete_menus"
        /\ Len(req[p].ocr_items) = 2
        /\ Len(req[p].tx.menu_translations) >= 2
        /\ req[p].tx.del_ocr_menu_items # {}
        /\ req[p].tx.del_ocr_menus = {}

\* C12: for every store the menus rows of the store, in creation order, have
\* strictly increasing versions.
C12_VersionsIncrease ==
    \A a, b \in 1..Len(db.menus) :
        (a < b /\ db.menus[a].store_id = db.menus[b].store_id) =>
            db.menus[a].version < db.menus[b].version

\* C14: no menu_items row has two menu_translations rows with the same
\* lang_code.
C14_DistinctLangCodes ==
    \A a, b \in 1..Len(db.menu_translations) :
        (a # b /\ db.menu_translations[a].menu_item_id = db.menu_translations[b].menu_item_id)
            => db.menu_translations[a].lang_code # db.menu_translations[b].lang_code

FilledPairs(form) ==
    LET n == IF Len(form.lang_codes) < Len(form.descriptions)
             THEN Len(form.lang_codes) ELSE Len(form.descriptions)
        filled == SelectSeq([k \in 1..n |-> k],
                            LAMBDA k : form.lang_codes[k] # "" /\ form.descriptions[k] # "")
    IN  [m \in 1..Len(filled) |-> <<form.lang_codes[filled[m]], form.descriptions[filled[m]]>>]

\* the rows of table whose column key holds id
RowsWith(table, key, id) == SelectSeq(table, LAMBDA x : x[key] = id)

\* C20: after an edit_menu_item POST for item I that commits, the
\* menu_translations rows of I are exactly the filled pairs of the submitted
\* lists (none of before remains); after one in which a statement or the commit
\* raised, the row of I and its translations are those of before.  The same
\* for edit_ocr_menu_item on ocr_menu_items and ocr_menu_translations.
C20_ReplaceAll ==
    \A p \in Procs :
        (Answered(p) /\ req[p].handler \in {"edit_menu_item", "edit_ocr_menu_item"}) =>
            LET r == req[p]
                items == IF r.handler = "edit_menu_item" THEN "menu_items"
                         ELSE "ocr_menu_items"
                translations == IF r.handler = "edit_menu_item" THEN "menu_translations"
                                ELSE "ocr_menu_translations"
            IN  /\ r.commits = 1 =>
                      PairsOf(db[translations], r.item_id) = FilledPairs(r.form)
                /\ r.failed_at # "" =>
                      /\ RowsWith(db[items], KeyOf(items), r.item_id)
                            = RowsWith(r.pre[items], KeyOf(items), r.item_id)
                      /\ PairsOf(db[translations], r.item_id)
                            = PairsOf(r.pre[translations], r.item_id)

\* C20 witness: an edit_menu_item POST for an item that had two translations,
\* with three lang_codes, two descriptions and one of these empty, has committed
\* and left the one filled pair
C20_Witness ==
    \E p \in Procs :
        /\ Answered(p)
        /\ req[p].handler = "edit_menu_item"
        /\ req[p].commits = 1
        /\ Len(PairsOf(req[p].pre.menu_translations, req[p].item_id)) = 2
        /\ Len(req[p].form.lang_codes) = 3
        /\ PairsOf(db.menu_translations, req[p].item_id) = <<<<"en", "e1">>>>

\* the calls of workers p and q are two imports of one store name that fetched
\* the same staged items, at least one, and both committed
BothImported(p, q) ==
    /\ p # q
    /\ Answered(p) /\ Answered(q)
    /\ Flashed(req[p], MsgImported) /\ Flashed(req[q], MsgImported)
    /\ req[p].ocr_store_name = req[q].ocr_store_name
    /\ req[p].ocr_items = req[q].ocr_items
    /\ req[p].ocr_items # <<>>

\* the menu of request r is a menus row of the store of r and holds one copy
\* (name and prices) of every staged item r fetched
HoldsItsCopy(d, r) ==
    /\ \E m \in Range(d.menus) : m.menu_id = r.menu_id /\ m.store_id = r.store_id
    /\ LET copied == ItemsOfMenu(d, r.menu_id)
       IN  /\ Len(copied) = Len(r.ocr_items)
           /\ \A k \in 1..Len(copied) :
                 /\ copied[k].item_name = r.ocr_items[k].item_name
                 /\ copied[k].price_big = r.ocr_items[k].price_big
                 /\ copied[k].price_small = r.ocr_items[k].price_small

\* C16: nothing serializes two concurrent calls for one store name: when both
\* have fetched the same staged items and both have committed, the store has
\* two new menus rows, one of each call, and each holds its own copy of every
\* staged item.
C16_BothCopiesCommitted ==
    \A p, q \in Procs :
        BothImported(p, q) =>
            /\ req[p].menu_id # req[q].menu_id
            /\ HoldsItsCopy(db, req[p])
            /\ HoldsItsCopy(db, req[q])
            /\ Len(db.menu_items) >= 2 * Len(req[p].ocr_items)

\* C16 witness: two concurrent calls for store A have both fetched the staged
\* item and its translations before either committed, and both have committed
C16_Witness ==
    \E p, q \in Procs :
        /\ BothImported(p, q)
        /\ req[p].pre = req[q].pre
        /\ Len(MenusOfStore(db, req[p].store_id))
              = Len(MenusOfStore(req[p].pre, req[p].store_id)) + 2
        /\ Len(db.menu_translations)
              = Len(req[p].pre.menu_translations)
                + 2 * Len(req[p].pre.ocr_menu_translations)

\* the cursor.execute() calls of an answered request r served under dialect,
\* those that only retrieve a generated id apart
LogicalStatements(r, dialect) ==
    IF dialect = "MYSQL" THEN r.statements
    ELSE r.statements - (IF r.menu_id # NoId THEN 1 ELSE 0)
                      - (IF Flashed(r, MsgImported) THEN Len(r.ocr_items) ELSE 0)

\* C19: the same call on the same tables, served with DB_TYPE = MYSQL and with
\* DB_TYPE = SQL_SERVER and with no statement raising in either, executes the
\* same statements (id retrieval apart), gets the same answer and leaves the
\* same committed rows.
C19_DialectEquivalence ==
    LET first == req["w2"]
        second == req["w1"]
    IN  (/\ first.pc = "kept" /\ second.pc = "done"
         /\ second.pre = first.pre /\ second.pre_ident = first.pre_ident
         /\ first.failed_at = "" /\ second.failed_at = "") =>
            /\ LogicalStatements(second, "SQL_SERVER") = LogicalStatements(first, "MYSQL")
            /\ second.flashes = first.flashes
            /\ second.response = first.response
            /\ second.escaped = first.escaped
            /\ second.imported_count = first.imported_count
            /\ second.commits = first.commits
            /\ second.rollbacks = first.rollbacks
            /\ db = first.post

\* ======================================================================
\* Properties of the menu lifecycle, the staging tables and the session
\* ======================================================================

\* C21, of an answered add_menu_item call: a call that succeeded has added one
\* menu_items row; when the store had no menus row it has added one menus row,
\* of the store and with version 1, and the item is under it; otherwise it has
\* added no menus row and the item is under a menus row of the store with the
\* highest version.  A call that did not succeed has added no menus row.
C21_AddMenuItemMenu ==
    \A p \in Procs :
        LET r == req[p]
            before == MenusOfStore(r.pre, r.store_id)
            added == AddedRows(r.pre.menus, db.menus)
            items == AddedRows(r.pre.menu_items, db.menu_items)
        IN  (r.handler = "add_menu_item" /\ Answered(p)) =>
                IF Flashed(r, MsgItemAdded)
                THEN /\ Len(items) = 1
                     /\ IF before = <<>>
                        THEN /\ Len(added) = 1
                             /\ added[1].store_id = r.store_id
                             /\ added[1].version = 1
                             /\ added[1].menu_id = items[1].menu_id
                        ELSE /\ added = <<>>
                             /\ \E m \in Range(before) :
                                   /\ m.menu_id = items[1].menu_id
                                   /\ \A o \in Range(before) : o.version <= m.version
                ELSE db.menus = r.pre.menus

\* C21, of every step: the committed menus rows of before the step are the
\* first committed menus rows of after it
C21_MenusKept ==
    /\ Len(db'.menus) >= Len(db.menus)
    /\ SubSeq(db'.menus, 1, Len(db.menus)) = db.menus

\* C21: add_menu_item inserts a menus row (version 1) for a store only when the
\* store has none and otherwise attaches the item to the store's menu with the
\* highest version; no step of any handler removes a committed menus row.
C21_MenuLifecycle == [](C21_AddMenuItemMenu) /\ [][C21_MenusKept]_vars

\* C21 witness: add_menu_item has added an item for a store that had a menus
\* row, and the menus table still has exactly the rows of before
C21_Witness ==
    \E p \in Procs :
        /\ req[p].handler = "add_menu_item"
        /\ Answered(p)
        /\ Flashed(req[p], MsgItemAdded)
        /\ MenusOfStore(req[p].pre, req[p].store_id) # <<>>
        /\ db.menus = req[p].pre.menus

\* the ocr_menus rows of d with store_name name: the upload batches of the name
Batches(d, name) == SelectSeq(d.ocr_menus, LAMBDA m : m.store_name = name)

\* the ocr_menu_items rows of d that belong to one of the batches of name
ItemsOfBatches(d, name) ==
    SelectSeq(d.ocr_menu_items,
              LAMBDA x : \E k \in 1..Len(Batches(d, name)) :
                            Batches(d, name)[k].ocr_menu_id = x.ocr_menu_id)

\* C22: a successful import for a store_name that had several ocr_menus rows
\* has added exactly one menus row, has added one menu_items row for every
\* staged item of every batch of the name, all under the menu_id of that one
\* row, and has left no ocr_menus row of the name.
C22_AllBatchesUnderOneMenu ==
    \A p \in Procs :
        LET r == req[p]
            menus == AddedRows(r.pre.menus, db.menus)
            items == AddedRows(r.pre.menu_items, db.menu_items)
        IN  (Flashed(r, MsgImported) /\ Len(Batches(r.pre, r.ocr_store_name)) >= 2) =>
                /\ Len(menus) = 1
                /\ menus[1].menu_id = r.menu_id
                /\ Len(items) = Len(ItemsOfBatches(r.pre, r.ocr_store_name))
                /\ \A k \in 1..Len(items) : items[k].menu_id = menus[1].menu_id
                /\ Batches(db, r.ocr_store_name) = <<>>

\* C22 witness: an import has succeeded for a store_name with two batches of
\* one staged item each
C22_Witness ==
    \E p \in Procs :
        LET r == req[p]
            staged == ItemsOfBatches(r.pre, r.ocr_store_name)
        IN  /\ Answered(p)
            /\ Flashed(r, MsgImported)
            /\ Len(Batches(r.pre, r.ocr_store_name)) = 2
            /\ Len(staged) = 2
            /\ staged[1].ocr_menu_id # staged[2].ocr_menu_id

\* C23: when an import of a store name has succeeded and the same call is made
\* again on the tables the first call left, no statement raising, the second
\* call is answered with the message that nothing was imported (zero items) and
\* the committed tables are those the first call left.
C23_RepeatedImport ==
    LET first == req["w2"]
        second == req["w1"]
    IN  (/\ first.pc = "kept" /\ second.pc = "done"
         /\ second.ocr_store_name = first.ocr_store_name
         /\ second.pre = first.post
         /\ "username" \in session
         /\ second.failed_at = "") =>
            /\ second.escaped = ""
            /\ second.flashes =
                  <<Flash("success", MsgNothingToImport, second.ocr_store_name, 0, "")>>
            /\ second.imported_count = 0
            /\ db = first.post

\* C24: an import by a logged in user of a store_name that an ocr_menus row
\* carries, no statement raising, is not answered as not-found and resolves
\* the store_id recorded on that row.
C24_ImportResolvesUploadStore ==
    \A p \in Procs :
        LET r == req[p]
        IN  (/\ r.handler = "import_ocr_menu"
             /\ Answered(p)
             /\ "username" \in session
             /\ r.failed_at = "") =>
                \A m \in Range(r.pre.ocr_menus) :
                    m.store_name = r.ocr_store_name =>
                        /\ ~ Flashed(r, MsgStoreNotFound)
                        /\ r.store_id = m.store_id

\* the item of a recognition result has a non-empty original_name and a
\* price_small that is not null
Complete(item) == item.original_name # "" /\ item.original_name # NULL /\ item.price_small # NULL

\* the staged translations an item of a recognition result is to have, as
\* pairs
ExpectedTranslations(item) ==
    <<[lang_code |-> "zh-TW", description |-> item.original_name]>>
    \o (IF item.translated_name # "" /\ item.translated_name # NULL
        THEN <<[lang_code |-> "en", description |-> item.translated_name]>>
        ELSE <<>>)

\* the (lang_code, description) pairs of the rows of table that reference id
TranslationsOf(table, id) ==
    LET rows == SelectSeq(table, LAMBDA t : t.menu_item_id = id)
    IN  [k \in 1..Len(rows) |->
            [lang_code |-> rows[k].lang_code, description |-> rows[k].description]]

RECURSIVE SumLen(_, _)
\* the number of translations the items from position k on are to have
SumLen(items, k) ==
    IF k > Len(items) THEN 0 ELSE Len(ExpectedTranslations(items[k])) + SumLen(items, k + 1)

\* C25: an upload_ocr call that reports success has committed one ocr_menus row
\* of the store and, for every item of the result with a non-empty
\* original_name and a non-null price_small, in order, one ocr_menu_items row
\* under it with a zh-TW translation equal to original_name and, exactly when
\* translated_name is non-empty, an en translation, and nothing for the other
\* items; the count it reports is the number of staged items.  Any other call
\* (unknown store_id, a statement that raises) leaves the committed tables as
\* they were.
C25_UploadStages ==
    \A p \in Procs :
        LET r == req[p]
            menus == AddedRows(r.pre.ocr_menus, db.ocr_menus)
            items == AddedRows(r.pre.ocr_menu_items, db.ocr_menu_items)
            translations == AddedRows(r.pre.ocr_menu_translations, db.ocr_menu_translations)
            expected == SelectSeq(r.form.menu_items, Complete)
        IN  (r.handler = "upload_ocr" /\ Answered(p)) =>
                IF Flashed(r, MsgUploaded)
                THEN /\ StoresWithId(r.pre, r.store_id) # <<>>
                     /\ Len(menus) = 1
                     /\ menus[1].store_id = r.store_id
                     /\ menus[1].store_name = StoresWithId(r.pre, r.store_id)[1].store_name
                     /\ Len(items) = Len(expected)
                     /\ \A k \in 1..Len(items) :
                           /\ items[k].ocr_menu_id = menus[1].ocr_menu_id
                           /\ items[k].item_name = expected[k].original_name
                           /\ items[k].price_small = expected[k].price_small
                           /\ items[k].price_big = expected[k].price_large
                           /\ TranslationsOf(translations, items[k].ocr_menu_item_id)
                                 = ExpectedTranslations(expected[k])
                     /\ Len(translations) = SumLen(expected, 1)
                     /\ r.flashes[Len(r.flashes)].count = Len(items)
                     /\ r.commits = 1
                     /\ SubSeq(db.ocr_menus, 1, Len(r.pre.ocr_menus)) = r.pre.ocr_menus
                     /\ SubSeq(db.ocr_menu_items, 1, Len(r.pre.ocr_menu_items))
                           = r.pre.ocr_menu_items
                ELSE db = r.pre

\* C25 witness: an upload of a result with a complete item that has a
\* translated_name and an item without price_small has staged one item with
\* two translations and reported the count 1
C25_Witness ==
    \E p \in Procs :
        /\ req[p].handler = "upload_ocr"
        /\ Answered(p)
        /\ Flashed(req[p], MsgUploaded)
        /\ Len(req[p].form.menu_items) = 2
        /\ Len(db.ocr_menu_items) = Len(req[p].pre.ocr_menu_items) + 1
        /\ Len(db.ocr_menu_translations) = Len(req[p].pre.ocr_menu_translations) + 2
        /\ req[p].flashes[1].count = 1

\* C26: every committed ocr_menus row (upload_ocr has inserted them all) has at
\* least one ocr_menu_items row.
C26_UploadedMenuHasItems ==
    \A m \in Range(db.ocr_menus) :
        \E x \in Range(db.ocr_menu_items) : x.ocr_menu_id = m.ocr_menu_id

\* without a session the answered request of p was refused: a 401 or the
\* redirect to the login page, and no database connection
Refused(p) ==
    /\ req[p].response \in {"401", "redirect_home"}
    /\ req[p].connects = 0
    /\ req[p].conn = "none"

\* the routes other than '/', '/login' and '/logout' refuse a request without
\* a session
GatedRoutesRefuse ==
    \A p \in Procs :
        (Answered(p) /\ req[p].handler \notin {"login", "logout"} /\ "username" \notin session)
            => Refused(p)

\* C27 as stated: 'username' is in the session exactly when the most recent
\* login or logout event was a login whose check_credentials returned true, and
\* while it is absent every route other than '/', '/login' and '/logout' answers
\* with a 401 or a redirect to the login page and opens no database connection.
C27_SessionFollowsLastEvent ==
    /\ \A p \in Procs :
          /\ (Answered(p) /\ req[p].handler = "login")
                => ("username" \in session <=> req[p].form.ok)
          /\ (Answered(p) /\ req[p].handler = "logout") => "username" \notin session
    /\ GatedRoutesRefuse

\* after a login 'username' is in the session exactly when check_credentials
\* returned true or it was there before; after a logout it is absent
SessionAfterEvent ==
    \A p \in Procs :
        /\ (Answered(p) /\ req[p].handler = "login")
              => ("username" \in session
                     <=> (req[p].form.ok \/ "username" \in req[p].session_before))
        /\ (Answered(p) /\ req[p].handler = "logout") => "username" \notin session

\* a step that changes the session is the answer of a login or of a logout
SessionChangedByEvent ==
    session' # session
        => \E p \in Procs : /\ req[p].pc = "idle"
                            /\ req'[p].pc = "done"
                            /\ req'[p].handler \in {"login", "logout"}

\* C27, amended: 'username' is in the session exactly when a login whose
\* check_credentials returned true has happened since the most recent logout (a
\* login that fails leaves the session as it was, and no other route changes
\* it); while it is absent every route other than '/', '/login' and '/logout'
\* answers with a 401 or a redirect to the login page and opens no database
\* connection.
C27_SessionGating ==
    /\ [](SessionAfterEvent /\ GatedRoutesRefuse)
    /\ [][SessionChangedByEvent]_vars

\* C27 witness: a login that failed has left the session of an earlier login in
\* place
C27_Witness ==
    \E p \in Procs :
        /\ Answered(p)
        /\ req[p].handler = "login"
        /\ ~req[p].form.ok
        /\ "username" \in req[p].session_before
        /\ "username" \in session

\* the handlers that call get_db_connection() before they look at the form
ConnectsFirst ==
    {"edit_store", "edit_menu_item", "edit_ocr_menu_item", "add_menu_item",
     "add_ocr_menu_item", "add_store_user_link"}

\* C28: edit_store, edit_menu_item, edit_ocr_menu_item, add_menu_item,
\* add_ocr_menu_item and add_store_user_link close the connection they opened on
\* every return path, the missing-field and the validation-failure returns
\* included: a request of theirs that is answered after get_db_connection()
\* succeeded has closed its connection.
C28_ConnectionClosedOnReturn ==
    \A p \in Procs :
        (Answered(p) /\ req[p].handler \in ConnectsFirst /\ req[p].connects >= 1)
            => (req[p].conn = "closed" /\ req[p].closes = req[p].connects)

\* C29: in import_ocr_menu the connection's close is called exactly once per
\* call on every path that acquired a connection, and never on a connection
\* that is closed already: an answered call that connected has counted one
\* close.
C29_ClosedExactlyOnce ==
    \A p \in Procs :
        (Answered(p) /\ req[p].handler = "import_ocr_menu" /\ req[p].connects >= 1)
            => req[p].closes = 1

\* the least number of pages of per_page rows that hold total rows
Ceil10(total) == CHOOSE n \in 0..total : n * 10 >= total /\ (n = 0 \/ (n - 1) * 10 < total)

\* C30: for every page >= 1 and every number T >= 0 of matching stores,
\* /api/stores skips (page - 1) * 10 rows of the matching stores in descending
\* store_id order and returns at most 10 rows under both dialects (MYSQL binds
\* the limit and then the offset, SQL_SERVER the offset and then the fetch
\* count), total_pages is ceil(T / 10), has_prev is true exactly when page > 1,
\* and has_next is true exactly when page < total_pages, which is exactly when
\* rows exist beyond the current page.
C30_Pagination ==
    \A p \in Procs :
        LET r == req[p]
            page == r.form.page
            matching == OrderByIdDesc(Matching(db.stores, r.form.name))
            T == Len(matching)
            skipped == (page - 1) * 10
            n == Len(r.json.final_params)
        IN  (Answered(p) /\ r.handler = "get_stores" /\ r.response = "json") =>
                /\ Len(r.json.stores) <= 10
                /\ Len(r.json.stores) = IF T - skipped > 10 THEN 10
                                        ELSE IF T - skipped > 0 THEN T - skipped ELSE 0
                /\ \A k \in 1..Len(r.json.stores) : r.json.stores[k] = matching[skipped + k]
                /\ IF DB_TYPE = "MYSQL"
                   THEN r.json.final_params[n - 1] = 10 /\ r.json.final_params[n] = skipped
                   ELSE r.json.final_params[n - 1] = skipped /\ r.json.final_params[n] = 10
                /\ r.json.pagination.current_page = page
                /\ r.json.pagination.total_pages = Ceil10(T)
                /\ r.json.pagination.has_prev <=> page > 1
                /\ r.json.pagination.has_next <=> page < Ceil10(T)
                /\ r.json.pagination.has_next <=> T > skipped + Len(r.json.stores)

\* C30 witness: the last page of a filtered list under SQL_SERVER holds fewer
\* than 10 rows, a page before it exists and none after it
C30_Witness ==
    \E p \in Procs :
        /\ Answered(p)
        /\ req[p].handler = "get_stores"
        /\ req[p].response = "json"
        /\ DB_TYPE = "SQL_SERVER"
        /\ req[p].form.page = 2
        /\ req[p].form.name = "A"
        /\ Len(req[p].json.stores) \in 1..9
        /\ req[p].json.pagination.has_prev
        /\ ~req[p].json.pagination.has_next

====
